---- MODULE Spec2Model ----
(***************************************************************************)
(* A model of the ray tracer's scene graph and shading pipeline:           *)
(*   - the shape tree (Group / Csg / primitive nodes) with includes and    *)
(*     Group::refresh_parents                      (src/src/shapes)        *)
(*   - Csg::intersection_allowed / Csg::filter_intersections               *)
(*   - Group::local_intersect                                              *)
(*   - Intersections::hit and Intersection::prepare_computations           *)
(*   - World::color_at / shade_hit / reflected_color / refracted_color     *)
(*                                                                         *)
(* Ray parameters t are integers: only their order and sign matter to the  *)
(* code modelled here.  A transform is a translation along one axis by an  *)
(* integer amount k; its inverse is the translation by -k and the identity *)
(* is 0.  A material is a small integer, DefaultMaterial being the value   *)
(* of Material::new().                                                     *)
(***************************************************************************)
EXTENDS Integers, Sequences, FiniteSets, TLC

VARIABLES
    \* ---- the shape tree: node n is the n-th shape that was constructed
    kind,             \* kind[n] in {"Group", "Csg", "Prim"}
    children,         \* children[n]: Group: its Vec; Csg: <<left, right>>
    transform,        \* props.transform of node n
    material,         \* props.material of node n
    parentTransforms, \* props.parent_transforms of node n
    parentInverses,   \* props.parent_inverses of node n
    authored,         \* history: the material the scene author gave node n, if any
    refreshed,        \* history: root on which refresh_parents last ran (0: none)
    \* ---- Csg::filter_intersections
    op,               \* self.op
    xs,               \* the list being scanned
    idx,              \* position of the scan in xs (1-based, next to visit)
    inl,
    inr,
    result,
    last,             \* history: the admission test of the last iteration
    \* ---- Intersections::hit and Intersection::prepare_computations
    pc,               \* where the computation stands
    hitIdx,           \* the position in xs of what hit() returned (0: None)
    self,             \* the intersection prepare_computations runs on
    pidx,             \* position of its loop in xs
    containers,
    n1,
    n2,
    \* ---- Group::local_intersect
    childXs,          \* what intersect(ray) of each child returns, in child order
    \* ---- World::color_at and the calls below it
    stack,            \* the nested color_at calls, outermost first
    nLights,          \* world.lights.len()
    depth0,           \* the remaining depth the outermost color_at was given
    outcome,          \* "running", "returned" or "panicked"
    lastCall,         \* history: the last reflected_color / refracted_color call
    \* ---- World::is_shadowed
    lights,           \* world.lights: the position of each light
    objHits,          \* objHits[p][o]: where the ray from the point toward
                      \* position p meets object o (its t values)
    castsShadow,      \* the shadow flag of each object
    shadowed,         \* what is_shadowed last returned ("none": not called)
    \* ---- World::shade_hit
    surface,          \* what lighting() returns for each light
    hitMaterial,      \* comps.object.material()
    reflectedVal,     \* what reflected_color(comps, remaining) returns
    refractedVal,     \* what refracted_color(comps, remaining) returns
    reflectance,      \* schlick(comps), in halves
    color,            \* the sum so far
    lightIdx,         \* the lights whose closure has run
    shadePc,          \* "start", "summing", "returned", "panicked" or "idle"
    \* ---- Camera::render and Canvas
    hsize,            \* Camera.hsize
    vsize,            \* Camera.vsize
    width,            \* Canvas.width
    height,           \* Canvas.height
    pixels,           \* Canvas.pixels
    written,          \* how many times each element of pixels was assigned
    rx,               \* x of the loop of render
    ry,               \* y of the loop of render
    renderPc,         \* "loop", "returned", "panicked" or "idle"
    \* ---- Canvas::to_ppm
    header,           \* the lines of the header written
    ppmRow,           \* the chunks of pixels finished
    ppmCol,           \* the pixels of the current chunk finished
    ppmComp,          \* the components of the current pixel appended
    readIdx,          \* the elements of pixels consumed
    lineI,            \* i of to_ppm
    lineLen,          \* the characters after the last "\n" of ppm
    lastOut,          \* the class of the last character of ppm
    prevOut,          \* lastOut before the last append
    sep,              \* what the last append wrote before the number
    lastComponent,    \* the colour component last converted, in 510ths
    lastNumber,       \* the number last appended
    ppmPc,            \* "start", "rows", "returned", "panicked" or "idle"
    \* ---- World::intersect over a scene graph
    leafXs,           \* the t values local_intersect of each primitive returns
    worldXs,          \* xs of World::intersect
    objIdx,           \* the objects of the world already intersected
    ipc,              \* "loop", "returned" or "idle"
    \* ---- local_intersect of one primitive
    variant,          \* "Sphere", "Triangle" (Triangle::new) or "SmoothTriangle"
    rayD,             \* the determinant (triangle) or discriminant (sphere) of the ray
    rayU,             \* u of the ray, in tenths
    rayV,             \* v of the ray, in tenths
    uvXs,             \* the intersections returned
    uvPc,             \* "call", "returned" or "idle"
    \* ---- ObjParser
    lines_ignored,    \* ObjParser.lines_ignored
    vertices,         \* ObjParser.vertices, the dummy entry first
    normals,          \* ObjParser.normals, the dummy entry first
    default_group,    \* the children of ObjParser.default_group
    groups,           \* ObjParser.groups: name -> children of the group
    current_group,    \* ObjParser.current_group: <<>> or <<name>>
    objLine,          \* the line parse read last
    linesRead,        \* how many lines parse has read
    faceTotal,        \* the sum of (vertex count - 2) over the f lines read
    objGroup,         \* the children of the Group into_group returned
    objPc,            \* "parsing", "returned" or "idle"
    \* ---- Canvas::write_pixel called on its own
    lastWrite,        \* the arguments of the last write_pixel
    \* ---- repeated calls of refresh_parents on one group
    calls,            \* how many times refresh_parents was called
    grown,            \* a child was added after a call
    \* ---- a chain of Matrix4x4 builder calls
    chainM,           \* the matrix the chain has built so far
    chainOps,         \* the builder calls made, the first call first
    \* ---- Cone::local_intersect
    coneRay,          \* the ray: [origin, direction], each <<x, y, z>>
    cone,             \* the Cone: [min, max, closed]
    coneXs,           \* the intersections returned
    conePc            \* "call", "returned" or "idle"

treeVars == <<kind, children, transform, material, parentTransforms,
              parentInverses, authored, refreshed>>
csgVars == <<op, xs, idx, inl, inr, result, last>>
compsVars == <<pc, hitIdx, self, pidx, containers, n1, n2>>
shadeVars == <<stack, nLights, depth0, outcome, lastCall>>
shadowVars == <<lights, objHits, castsShadow, shadowed>>
hitVars == <<surface, hitMaterial, reflectedVal, refractedVal, reflectance,
             color, lightIdx, shadePc>>
renderVars == <<hsize, vsize, width, height, pixels, written, rx, ry, renderPc>>
ppmVars == <<header, ppmRow, ppmCol, ppmComp, readIdx, lineI, lineLen, lastOut,
             prevOut, sep, lastComponent, lastNumber, ppmPc>>
graphVars == <<leafXs, worldXs, objIdx, ipc>>
uvVars == <<variant, rayD, rayU, rayV, uvXs, uvPc>>
objVars == <<lines_ignored, vertices, normals, default_group, groups, current_group,
             objLine, linesRead, faceTotal, objGroup, objPc>>
canvasVars == <<lastWrite>>
repeatVars == <<calls, grown>>
chainVars == <<chainM, chainOps>>
coneVars == <<coneRay, cone, coneXs, conePc>>
restVars == <<shadowVars, hitVars, renderVars, ppmVars, graphVars, uvVars, objVars,
              canvasVars, repeatVars, chainVars, coneVars>>
vars == <<treeVars, csgVars, compsVars, childXs, shadeVars, restVars>>

----------------------------------------------------------------------------
(* Bounds *)

MaxXs == 4
MaxT == 2
MaxNodes == 4
MaxHitXs == 4
MaxHitT == 1
MaxChildren == 2
MaxChildXs == 2
MaxDepth == 2
MaxLights == 2
MaxShadowT == 3
MaxSize == 4
MaxWidth == 6
MaxHeight == 2
MaxLeafXs == 2
MaxLines == 7
MaxVertices == 4
MaxCanvasW == 2
MaxCanvasH == 2
MaxCalls == 2

----------------------------------------------------------------------------
(* Helpers *)

Range(s) == {s[i] : i \in 1..Len(s)}

RECURSIVE SeqsUpTo(_, _)
SeqsUpTo(S, n) ==
    IF n = 0 THEN {<<>>}
    ELSE LET shorter == SeqsUpTo(S, n - 1)
         IN  shorter \cup {Append(s, e) : s \in {q \in shorter : Len(q) = n - 1}, e \in S}

SortedByT(s) == \A i \in 1..(Len(s) - 1) : s[i].t <= s[i + 1].t

Nodes == 1..Len(kind)

DefaultMaterial == 0
Identity == 0
Inverse(m) == 0 - m

----------------------------------------------------------------------------
(* The shape tree *)

RECURSIVE ShapeEq(_, _)

\* shape_eq of a primitive (the other is of the same type), of Group (and has
\* as many children) and of Csg (and its left and right children are equal)
shape_eq(a, b) ==
    /\ kind[a] = kind[b]
    /\ CASE kind[a] = "Group" -> Len(children[a]) = Len(children[b])
         [] kind[a] = "Csg" -> /\ ShapeEq(children[a][1], children[b][1])
                               /\ ShapeEq(children[a][2], children[b][2])
         [] OTHER -> TRUE

\* Equality of the properties two shapes carry: their transform and material
PropsEq(a, b) == transform[a] = transform[b] /\ material[a] = material[b]

\* Equality of two shapes (dyn Shape == dyn Shape): by value, not by address;
\* a fresh Sphere::new() equals every default sphere (tests of sphere.rs)
ShapeEq(a, b) == shape_eq(a, b) /\ PropsEq(a, b)

RECURSIVE Includes(_, _)

\* Cylinder::includes, Cone::includes: self as &dyn Shape == other
PrimIncludes(n, other) == ShapeEq(n, other)

GroupIncludes(n, other) ==
    \E i \in 1..Len(children[n]) : Includes(children[n][i], other)

CsgIncludes(n, other) ==
    Includes(children[n][1], other) \/ Includes(children[n][2], other)

Includes(n, other) ==
    CASE kind[n] = "Group" -> GroupIncludes(n, other)
      [] kind[n] = "Csg" -> CsgIncludes(n, other)
      [] OTHER -> PrimIncludes(n, other)

\* The parent of a node (0 for a root): who owns it.
ParentOf(n) ==
    IF \E p \in Nodes : n \in Range(children[p])
    THEN CHOOSE p \in Nodes : n \in Range(children[p])
    ELSE 0

RECURSIVE Ancestors(_)
\* The ancestors of n, from the root down to its direct parent.
Ancestors(n) ==
    IF ParentOf(n) = 0 THEN <<>> ELSE Append(Ancestors(ParentOf(n)), ParentOf(n))

Leaves == {n \in Nodes : kind[n] = "Prim"}
LeavesUnder(n) == {l \in Leaves : l = n \/ n \in Range(Ancestors(l))}

NotAuthored == [set |-> FALSE, m |-> DefaultMaterial]

\* Props::default() for every node of a tree given by its kinds
DefaultProps(k) ==
    /\ transform = [n \in 1..Len(k) |-> Identity]
    /\ material = [n \in 1..Len(k) |-> DefaultMaterial]
    /\ parentTransforms = [n \in 1..Len(k) |-> <<>>]
    /\ parentInverses = [n \in 1..Len(k) |-> <<>>]
    /\ authored = [n \in 1..Len(k) |-> NotAuthored]
    /\ refreshed = 0

\* Props::default() for the composite nodes; each primitive has the default
\* material or one its builder was given
LeafMaterials(k) ==
    /\ transform = [n \in 1..Len(k) |-> Identity]
    /\ material \in {f \in [1..Len(k) -> {DefaultMaterial, DefaultMaterial + 1}] :
                        \A n \in 1..Len(k) : k[n] # "Prim" => f[n] = DefaultMaterial}
    /\ parentTransforms = [n \in 1..Len(k) |-> <<>>]
    /\ parentInverses = [n \in 1..Len(k) |-> <<>>]
    /\ authored = [n \in 1..Len(k) |->
                     IF material[n] = DefaultMaterial THEN NotAuthored
                     ELSE [set |-> TRUE, m |-> material[n]]]
    /\ refreshed = 0

\* Props::default() but for the materials, for n nodes
DefaultPropsBut(n) ==
    /\ transform = [j \in 1..n |-> Identity]
    /\ parentTransforms = [j \in 1..n |-> <<>>]
    /\ parentInverses = [j \in 1..n |-> <<>>]
    /\ authored = [j \in 1..n |-> [set |-> TRUE, m |-> j - 1]]
    /\ refreshed = 0

\* Csg trees as Csg::new(op, left, right) builds them from boxed children.
CsgTrees ==
    { [k |-> <<"Csg", "Prim", "Prim">>,
       c |-> << <<2, 3>>, <<>>, <<>> >>],
      [k |-> <<"Csg", "Group", "Prim", "Prim", "Prim">>,
       c |-> << <<2, 3>>, <<4, 5>>, <<>>, <<>>, <<>> >>],
      [k |-> <<"Csg", "Prim", "Csg", "Prim", "Prim">>,
       c |-> << <<2, 3>>, <<>>, <<4, 5>>, <<>>, <<>> >>] }

----------------------------------------------------------------------------
(* Building a shape tree: constructors and builders of src/src/shapes *)

Transforms == {Identity, Identity + 1}
Materials == {DefaultMaterial, DefaultMaterial + 1}

Roots == {n \in Nodes : ParentOf(n) = 0}

InitTree ==
    /\ kind = <<>>
    /\ children = <<>>
    /\ transform = <<>>
    /\ material = <<>>
    /\ parentTransforms = <<>>
    /\ parentInverses = <<>>
    /\ authored = <<>>
    /\ refreshed = 0

\* A new node with Props::default(), then the builders .transform(tr) and,
\* when a.set, .material(a.m)
NewNode(k, ch, tr, a) ==
    /\ kind' = Append(kind, k)
    /\ children' = Append(children, ch)
    /\ transform' = Append(transform, tr)
    /\ material' = Append(material, IF a.set THEN a.m ELSE DefaultMaterial)
    /\ parentTransforms' = Append(parentTransforms, <<>>)
    /\ parentInverses' = Append(parentInverses, <<>>)
    /\ authored' = Append(authored, a)
    /\ refreshed' = 0

Authorings == {NotAuthored} \cup [set : {TRUE}, m : Materials]

\* Csg::new(op, left, right): takes ownership of two boxed shapes
NewCsgOf(l, r) ==
    /\ l # r
    /\ NewNode("Csg", <<l, r>>, Identity, NotAuthored)

\* Sphere::new().material(m) and the other primitives
NewPrimWith ==
    /\ Len(kind) < MaxNodes
    /\ \E a \in Authorings : NewNode("Prim", <<>>, Identity, a)

\* Group::new().transform(tr).material(m)
NewGroupWith ==
    /\ Len(kind) < MaxNodes
    /\ \E tr \in Transforms, a \in Authorings \ {[set |-> TRUE, m |-> DefaultMaterial]} :
          NewNode("Group", <<>>, tr, a)

\* Csg::new(op, left, right) in a scene whose shapes carry transforms and materials
NewCsg ==
    /\ Len(kind) < MaxNodes
    /\ \E l \in Roots, r \in Roots : NewCsgOf(l, r)

\* Group::add_child(child): takes ownership of a boxed shape
add_child ==
    \E g \in Roots, c \in Roots :
        /\ kind[g] = "Group"
        /\ c # g
        /\ children' = [children EXCEPT ![g] = Append(@, c)]
        /\ refreshed' = 0
        /\ UNCHANGED <<kind, transform, material, parentTransforms,
                       parentInverses, authored>>

RECURSIVE RefreshFrom(_, _)
RECURSIVE RefreshChildren(_, _, _, _, _, _)

\* The body of the loop appending the ancestors' lists to the child's lists
RefreshChild_Accumulate(c, m, ct, ci, st) ==
    LET set == [mat |-> IF st.mat[c] = DefaultMaterial
                        THEN [st.mat EXCEPT ![c] = m]
                        ELSE st.mat,
                pt |-> [st.pt EXCEPT ![c] = @ \o ct],
                pi |-> [st.pi EXCEPT ![c] = @ \o ci]]
    IN  IF kind[c] = "Group" THEN RefreshFrom(c, set) ELSE set

\* The body of the loop of Group::refresh_parents for one child c; st holds the
\* materials and ancestor lists of all nodes
RefreshChild(c, m, ct, ci, st) ==
    LET set == [mat |-> IF st.mat[c] = DefaultMaterial
                        THEN [st.mat EXCEPT ![c] = m]
                        ELSE st.mat,
                pt |-> [st.pt EXCEPT ![c] = ct],
                pi |-> [st.pi EXCEPT ![c] = ci]]
    IN  IF kind[c] = "Group" THEN RefreshFrom(c, set) ELSE set

RefreshChildren(g, i, m, ct, ci, st) ==
    IF i > Len(children[g]) THEN st
    ELSE RefreshChildren(g, i + 1, m, ct, ci,
                         RefreshChild(children[g][i], m, ct, ci, st))

\* Group::refresh_parents on group g
RefreshFrom(g, st) ==
    RefreshChildren(g, 1, st.mat[g],
                    Append(st.pt[g], transform[g]),
                    Append(st.pi[g], Inverse(transform[g])),
                    st)

refresh_parents ==
    \E g \in Roots :
        /\ kind[g] = "Group"
        /\ LET st == RefreshFrom(g, [mat |-> material, pt |-> parentTransforms,
                                     pi |-> parentInverses])
           IN  /\ material' = st.mat
               /\ parentTransforms' = st.pt
               /\ parentInverses' = st.pi
        /\ refreshed' = g
        /\ UNCHANGED <<kind, children, transform, authored>>

----------------------------------------------------------------------------
(* Csg *)

Ops == {"Union", "Intersection", "Difference"}

\* intersection_allowed with the difference row copied from the union row
intersection_allowed_UnionRow(o, hit, l, r) ==
    CASE o = "Union" -> (hit = "Left" /\ ~r) \/ (hit = "Right" /\ ~l)
      [] o = "Intersection" -> (hit = "Left" /\ r) \/ (hit = "Right" /\ l)
      [] o = "Difference" -> (hit = "Left" /\ ~r) \/ (hit = "Right" /\ ~l)

intersection_allowed(o, hit, l, r) ==
    CASE o = "Union" -> (hit = "Left" /\ ~r) \/ (hit = "Right" /\ ~l)
      [] o = "Intersection" -> (hit = "Left" /\ r) \/ (hit = "Right" /\ l)
      [] o = "Difference" -> (hit = "Left" /\ ~r) \/ (hit = "Right" /\ l)

\* The Csg node whose filter runs: the root of the tree
CsgNode == 1

\* if i.object is part of the left child then hit is Hit::Left
HitOf(i) == IF Includes(children[CsgNode][1], i.object) THEN "Left" ELSE "Right"

NoTest == [hit |-> "None", inl |-> FALSE, inr |-> FALSE, allowed |-> FALSE]

InitFilter ==
    /\ \E tr \in CsgTrees :
          /\ kind = tr.k
          /\ children = tr.c
          /\ LeafMaterials(tr.k)
    /\ op \in Ops
    /\ xs \in {s \in SeqsUpTo([t : 1..MaxT, object : Leaves], MaxXs) : SortedByT(s)}
    /\ idx = 1
    /\ inl = FALSE
    /\ inr = FALSE
    /\ result = <<>>
    /\ last = NoTest

\* The loop of filter_intersections toggling a flag only for a kept intersection
FilterStep_ToggleIfKept ==
    /\ idx <= Len(xs)
    /\ LET i == xs[idx]
           hit == HitOf(i)
           allowed == intersection_allowed(op, hit, inl, inr)
       IN  /\ result' = IF allowed THEN Append(result, i) ELSE result
           /\ inl' = IF allowed /\ hit = "Left" THEN ~inl ELSE inl
           /\ inr' = IF allowed /\ hit = "Right" THEN ~inr ELSE inr
           /\ last' = [hit |-> hit, inl |-> inl, inr |-> inr, allowed |-> allowed]
    /\ idx' = idx + 1
    /\ UNCHANGED <<op, xs>>

\* One iteration of the loop of filter_intersections
FilterStep ==
    /\ idx <= Len(xs)
    /\ LET i == xs[idx]
           hit == HitOf(i)
           allowed == intersection_allowed(op, hit, inl, inr)
       IN  /\ result' = IF allowed THEN Append(result, i) ELSE result
           /\ inl' = IF hit = "Left" THEN ~inl ELSE inl
           /\ inr' = IF hit = "Left" THEN inr ELSE ~inr
           /\ last' = [hit |-> hit, inl |-> inl, inr |-> inr, allowed |-> allowed]
    /\ idx' = idx + 1
    /\ UNCHANGED <<op, xs>>

\* No scan is running
ParkCsg ==
    /\ op = "Union"
    /\ xs = <<>>
    /\ idx = 1
    /\ inl = FALSE
    /\ inr = FALSE
    /\ result = <<>>
    /\ last = NoTest

NoCall == [fn |-> "none", remaining |-> 0, coefficient |-> 0, tir |-> FALSE,
           calls |-> 0, depth |-> 0, black |-> FALSE]

\* No ray is being traced
ParkShade ==
    /\ stack = <<>>
    /\ nLights = 0
    /\ depth0 = 0
    /\ outcome = "returned"
    /\ lastCall = NoCall

\* No shadow is being tested
ParkShadow ==
    /\ lights = <<>>
    /\ objHits = <<>>
    /\ castsShadow = <<>>
    /\ shadowed = "none"

\* shade_hit is not running
ParkHit ==
    /\ surface = <<>>
    /\ hitMaterial = DefaultMaterial
    /\ reflectedVal = 0
    /\ refractedVal = 0
    /\ reflectance = 0
    /\ color = 0
    /\ lightIdx = 0
    /\ shadePc = "idle"

\* render is not running
ParkRender ==
    /\ hsize = 0
    /\ vsize = 0
    /\ width = 0
    /\ height = 0
    /\ pixels = <<>>
    /\ written = <<>>
    /\ rx = 0
    /\ ry = 0
    /\ renderPc = "idle"

\* to_ppm is not running
ParkPpm ==
    /\ header = <<>>
    /\ ppmRow = 0
    /\ ppmCol = 0
    /\ ppmComp = 0
    /\ readIdx = 0
    /\ lineI = 0
    /\ lineLen = 0
    /\ lastOut = "none"
    /\ prevOut = "none"
    /\ sep = "none"
    /\ lastComponent = 0
    /\ lastNumber = 0
    /\ ppmPc = "idle"

\* World::intersect is not running on a scene graph
ParkGraph ==
    /\ leafXs = <<>>
    /\ worldXs = <<>>
    /\ objIdx = 0
    /\ ipc = "idle"

\* No primitive is being intersected on its own
ParkUv ==
    /\ variant = "Sphere"
    /\ rayD = 0
    /\ rayU = 0
    /\ rayV = 0
    /\ uvXs = <<>>
    /\ uvPc = "idle"

\* A line of an OBJ file: a command, with the name of a g line and the vertex
\* indices of an f line
Line(c, n, f) == [cmd |-> c, name |-> n, idxs |-> f]

NoLine == Line("", "", <<>>)

\* No OBJ file is being parsed
ParkObj ==
    /\ lines_ignored = 0
    /\ vertices = <<>>
    /\ normals = <<>>
    /\ default_group = <<>>
    /\ groups = [n \in {} |-> <<>>]
    /\ current_group = <<>>
    /\ objLine = NoLine
    /\ linesRead = 0
    /\ faceTotal = 0
    /\ objGroup = <<>>
    /\ objPc = "idle"

\* write_pixel was not called
NoWrite == [x |-> 0, y |-> 0, c |-> <<>>]

ParkCanvas == lastWrite = NoWrite

\* The calls of refresh_parents are not counted
ParkRepeat == calls = 0 /\ grown = FALSE

\* No builder chain is under way
ParkChain == chainM = <<>> /\ chainOps = <<>>

\* No cone is being intersected
ParkCone == coneRay = <<>> /\ cone = <<>> /\ coneXs = <<>> /\ conePc = "idle"

ParkRest ==
    /\ ParkShadow /\ ParkHit /\ ParkRender /\ ParkPpm /\ ParkGraph /\ ParkUv /\ ParkObj
    /\ ParkCanvas /\ ParkRepeat /\ ParkChain /\ ParkCone

----------------------------------------------------------------------------
(* Intersections::hit and Intersection::prepare_computations *)

\* Refractive indices in tenths: Material::new() has 1.0
refractive_index(m) == 10 + 5 * m

NoIntersection == [t |-> 0, object |-> 0]

\* Nothing is being computed
ParkComps ==
    /\ pc = "idle"
    /\ hitIdx = 0
    /\ self = NoIntersection
    /\ pidx = 1
    /\ containers = <<>>
    /\ n1 = 10
    /\ n2 = 10

\* PartialEq for Intersection
IntersectionEq(a, b) == a.t = b.t /\ ShapeEq(a.object, b.object)

RECURSIVE HitFrom(_, _)
\* The loop of Intersections::hit from position k on: the position returned
HitFrom(s, k) ==
    IF k > Len(s) THEN 0
    ELSE IF s[k].t > 0 THEN k
    ELSE HitFrom(s, k + 1)

\* Intersections::hit: a position of the list, or 0 for None
hit(s) == IF Len(s) = 0 THEN 0 ELSE HitFrom(s, 1)

\* The materials of the glass spheres A (1.5), B (2.0), C (2.5) of
\* tests::intersections_n1_n2
ExampleMaterials == <<1, 2, 3>>

\* Three glass spheres, each of one of the three glasses
GlassWorld ==
    /\ kind = <<"Prim", "Prim", "Prim">>
    /\ children = << <<>>, <<>>, <<>> >>
    /\ transform = <<Identity, Identity, Identity>>
    /\ material \in [1..3 -> Range(ExampleMaterials)]
    /\ parentTransforms = << <<>>, <<>>, <<>> >>
    /\ parentInverses = << <<>>, <<>>, <<>> >>
    /\ authored = [n \in 1..3 |-> [set |-> TRUE, m |-> material[n]]]
    /\ refreshed = 0

\* The six intersections of tests::intersections_n1_n2, with t in quarters
ExampleXs ==
    << [t |-> 8, object |-> 1], [t |-> 11, object |-> 2], [t |-> 13, object |-> 3],
       [t |-> 19, object |-> 2], [t |-> 21, object |-> 3], [t |-> 24, object |-> 1] >>

InitComps ==
    /\ GlassWorld
    /\ xs \in {s \in SeqsUpTo([t : (0 - 1)..MaxHitT, object : 1..3], MaxHitXs) :
                  SortedByT(s)} \cup {ExampleXs}
    /\ pc = "start"
    /\ hitIdx = 0
    /\ self = NoIntersection
    /\ pidx = 1
    /\ containers = <<>>
    /\ n1 = 10
    /\ n2 = 10

\* World::color_at: let hit = intersections.hit()
Hit ==
    /\ pc = "start"
    /\ hitIdx' = hit(xs)
    /\ pc' = "hit"
    /\ UNCHANGED <<self, pidx, containers, n1, n2>>

\* World::color_at: i.prepare_computations(&ray, &intersections) on the hit
PrepareHit ==
    /\ pc = "hit"
    /\ hitIdx # 0
    /\ self' = xs[hitIdx]
    /\ pc' = "scan"
    /\ UNCHANGED <<hitIdx, pidx, containers, n1, n2>>

\* prepare_computations on an intersection of the list, as the tests call it
PrepareAny ==
    /\ pc = "start"
    /\ \E k \in 1..Len(xs) : self' = xs[k]
    /\ pc' = "scan"
    /\ UNCHANGED <<hitIdx, pidx, containers, n1, n2>>

\* containers.last().unwrap().material().refractive_index, or 1.0 when empty
IndexOfLast(c) ==
    IF Len(c) = 0 THEN 10 ELSE refractive_index(material[c[Len(c)]])

\* Vec::remove(pos)
RemoveAt(c, pos) == [j \in 1..(Len(c) - 1) |-> IF j < pos THEN c[j] ELSE c[j + 1]]

\* containers.iter().position(..) then remove(pos), else push
Toggle(c, o) ==
    IF \E j \in 1..Len(c) : ShapeEq(c[j], o)
    THEN RemoveAt(c, CHOOSE j \in 1..Len(c) :
                        /\ ShapeEq(c[j], o)
                        /\ \A q \in 1..(j - 1) : ~ShapeEq(c[q], o))
    ELSE Append(c, o)

\* One iteration of the loop of prepare_computations
PrepareStep ==
    /\ pc = "scan"
    /\ pidx <= Len(xs)
    /\ LET i == xs[pidx]
           found == IntersectionEq(i, self)
           after == Toggle(containers, i.object)
       IN  /\ n1' = IF found THEN IndexOfLast(containers) ELSE n1
           /\ containers' = after
           /\ n2' = IF found THEN IndexOfLast(after) ELSE n2
           /\ pc' = IF found \/ pidx = Len(xs) THEN "done" ELSE "scan"
    /\ pidx' = pidx + 1
    /\ UNCHANGED <<hitIdx, self>>

NextComps ==
    \/ Hit /\ UNCHANGED <<treeVars, csgVars, childXs, shadeVars, restVars>>
    \/ PrepareHit /\ UNCHANGED <<treeVars, csgVars, childXs, shadeVars, restVars>>
    \/ PrepareAny /\ UNCHANGED <<treeVars, csgVars, childXs, shadeVars, restVars>>
    \/ PrepareStep /\ UNCHANGED <<treeVars, csgVars, childXs, shadeVars, restVars>>

NextCsg == FilterStep /\ UNCHANGED <<treeVars, compsVars, childXs, shadeVars, restVars>>

\* InitComps leaves the Csg scan's variables other than xs parked
ParkScan ==
    /\ op = "Union"
    /\ idx = 1
    /\ inl = FALSE
    /\ inr = FALSE
    /\ result = <<>>
    /\ last = NoTest

InitCompsSpec == InitComps /\ ParkScan /\ childXs = <<>> /\ ParkShade /\ ParkRest

SpecComps == InitCompsSpec /\ [][NextComps]_vars

InitCsgSpec == InitFilter /\ ParkComps /\ childXs = <<>> /\ ParkShade /\ ParkRest

SpecCsg == InitCsgSpec /\ [][NextCsg]_vars

----------------------------------------------------------------------------
(* Claims about Csg *)

\* The admission table of the CSG combinator: <<op, hit, inLeft, inRight>> -> keep
AdmissionTable ==
    [q \in Ops \X {"Left", "Right"} \X BOOLEAN \X BOOLEAN |->
        IF q[1] = "Union" THEN (IF q[2] = "Left" THEN ~q[4] ELSE ~q[3])
        ELSE IF q[1] = "Intersection" THEN (IF q[2] = "Left" THEN q[4] ELSE q[3])
        ELSE (IF q[2] = "Left" THEN ~q[4] ELSE q[3])]

\* C1: for every op, hit side and pair of flags, intersection_allowed returns
\* exactly the admission table (union: left iff !inRight, right iff !inLeft;
\* intersection: left iff inRight, right iff inLeft; difference: left iff
\* !inRight, right iff inLeft).  Checked on every admission test the scan makes.
C1_AdmissionTable ==
    last.hit # "None" =>
        last.allowed = AdmissionTable[<<op, last.hit, last.inl, last.inr>>]

\* C1 witness: a difference kept a right hit met inside both children
C1_Witness ==
    /\ op = "Difference"
    /\ last = [hit |-> "Right", inl |-> TRUE, inr |-> TRUE, allowed |-> TRUE]

\* The side an intersection comes from: the child subtree that owns its object
SideOf(i) == IF i.object \in LeavesUnder(children[CsgNode][1]) THEN "Left" ELSE "Right"

\* Is the ray inside the left (right) child just before the k-th intersection:
\* it has crossed that child's surface an odd number of times
InsideBefore(side, k) ==
    Cardinality({j \in 1..(k - 1) : SideOf(xs[j]) = side}) % 2 = 1

\* Membership in the combined solid
InSolid(o, l, r) ==
    CASE o = "Union" -> l \/ r
      [] o = "Intersection" -> l /\ r
      [] o = "Difference" -> l /\ ~r

\* The k-th intersection is a boundary crossing of the combined solid
Crossing(k) ==
    InSolid(op, InsideBefore("Left", k), InsideBefore("Right", k))
        # InSolid(op, InsideBefore("Left", k + 1), InsideBefore("Right", k + 1))

RECURSIVE Crossings(_)
\* The boundary crossings among the first n intersections, in order
Crossings(n) ==
    IF n = 0 THEN <<>>
    ELSE IF Crossing(n) THEN Append(Crossings(n - 1), xs[n]) ELSE Crossings(n - 1)

\* C2: filter_intersections keeps exactly the boundary crossings of the
\* combined solid: an intersection is kept iff membership in the combined
\* solid just before it differs from membership after it toggled its own
\* side's flag.  Stated for every prefix the scan has visited.
C2_BoundaryCrossings ==
    /\ result = Crossings(idx - 1)
    /\ last.hit # "None" => (last.allowed <=> Crossing(idx - 1))

\* The scan has just visited an intersection
Visited == idx' = idx + 1

\* C24: filter_intersections is a single in-order scan: both flags start
\* false; the admission test of an intersection reads the flags as they were
\* before its toggle; after the test exactly the flag of the side the scan
\* found for the intersection is toggled, kept or not; the result grows only
\* by the intersection visited, at its end, so it is a subsequence of the
\* input in the same order.
C24_SingleScan ==
    /\ [](idx = 1 => ~inl /\ ~inr /\ result = <<>>)
    /\ [][Visited =>
            /\ last'.hit = HitOf(xs[idx])
            /\ last'.allowed = intersection_allowed(op, last'.hit, inl, inr)
            /\ result' = IF last'.allowed THEN Append(result, xs[idx]) ELSE result
            /\ inl' = (IF last'.hit = "Left" THEN ~inl ELSE inl)
            /\ inr' = (IF last'.hit = "Right" THEN ~inr ELSE inr)
            /\ xs' = xs]_vars

\* A union skipped a left hit met inside the right child, and toggled inl
C24_Witness ==
    /\ op = "Union"
    /\ last = [hit |-> "Left", inl |-> FALSE, inr |-> TRUE, allowed |-> FALSE]
    /\ inl
    /\ inr
    /\ Len(result) < idx - 1

\* C25: every intersection the right child produced is classified as a right
\* hit and every intersection the left child produced as a left hit, also
\* when the children contain shapes that compare equal.
C25_SideClassified ==
    last.hit # "None" => last.hit = SideOf(xs[idx - 1])

\* How many of the first n intersections come from a side
FromSide(side, n) == Cardinality({j \in 1..n : SideOf(xs[j]) = side})

----------------------------------------------------------------------------
(* Group::local_intersect *)

RECURSIVE FlatMap(_, _)
\* children.iter().flat_map(|c| c.intersect(&ray)).collect(), from child k on
FlatMap(cx, k) ==
    IF k > Len(cx) THEN <<>> ELSE cx[k] \o FlatMap(cx, k + 1)

\* Insertion of e after every element that does not compare greater
InsertByT(s, e) ==
    LET before == SelectSeq(s, LAMBDA x : x.t <= e.t)
        after == SelectSeq(s, LAMBDA x : x.t > e.t)
    IN  before \o <<e>> \o after

RECURSIVE SortUpTo(_, _)
SortUpTo(s, n) == IF n = 0 THEN <<>> ELSE InsertByT(SortUpTo(s, n - 1), s[n])

\* The sort with the comparison the other way round
sort_by_t_Descending(s) ==
    LET up == SortUpTo(s, Len(s)) IN [j \in 1..Len(s) |-> up[Len(s) + 1 - j]]

\* xs.sort_by(|a, b| a.t.partial_cmp(&b.t).unwrap()): a stable sort
sort_by_t(s) == SortUpTo(s, Len(s))

\* A group (node 1) of n primitives (nodes 2..n+1), all with Props::default()
GroupOf(n) ==
    /\ kind = [j \in 1..(n + 1) |-> IF j = 1 THEN "Group" ELSE "Prim"]
    /\ children = [j \in 1..(n + 1) |-> IF j = 1 THEN [c \in 1..n |-> c + 1] ELSE <<>>]
    /\ DefaultProps([j \in 1..(n + 1) |-> "Prim"])

InitGroup ==
    /\ \E n \in 0..MaxChildren :
          /\ GroupOf(n)
          /\ childXs \in [1..n -> SeqsUpTo(1..MaxT, MaxChildXs)]
    /\ xs = <<>>
    /\ result = <<>>
    /\ pc = "start"

\* let mut xs = children.iter().flat_map(|c| c.intersect(&ray)).collect();
\* the intersections of child c reference the primitive c
Collect ==
    /\ pc = "start"
    /\ xs' = FlatMap([c \in 1..Len(childXs) |->
                        [j \in 1..Len(childXs[c]) |->
                            [t |-> childXs[c][j], object |-> children[1][c]]]], 1)
    /\ pc' = "collected"
    /\ UNCHANGED result

\* xs.sort_by(..); xs
SortAndReturn ==
    /\ pc = "collected"
    /\ result' = sort_by_t(xs)
    /\ pc' = "sorted"
    /\ UNCHANGED xs

NextGroup ==
    \/ /\ Collect
       /\ UNCHANGED <<treeVars, op, idx, inl, inr, last, hitIdx, self, pidx,
                      containers, n1, n2, childXs, shadeVars, restVars>>
    \/ /\ SortAndReturn
       /\ UNCHANGED <<treeVars, op, idx, inl, inr, last, hitIdx, self, pidx,
                      containers, n1, n2, childXs, shadeVars, restVars>>

InitGroupSpec ==
    /\ InitGroup
    /\ op = "Union"
    /\ idx = 1
    /\ inl = FALSE
    /\ inr = FALSE
    /\ last = NoTest
    /\ hitIdx = 0
    /\ self = NoIntersection
    /\ pidx = 1
    /\ containers = <<>>
    /\ n1 = 10
    /\ n2 = 10
    /\ ParkShade
    /\ ParkRest

SpecGroup == InitGroupSpec /\ [][NextGroup]_vars

\* How often intersection e occurs in list s
Count(s, e) == Cardinality({j \in 1..Len(s) : s[j] = e})

\* How often the children's intersect calls returned t for child c
Returned(c, t) == Cardinality({j \in 1..Len(childXs[c]) : childXs[c][j] = t})

\* C7: Group::local_intersect returns all the intersections its children's
\* intersect calls returned, each exactly once and nothing else, ascending by
\* t (xs[k].t <= xs[k+1].t), whatever the order of the children.
C7_GroupIntersect ==
    pc = "sorted" =>
        /\ \A k \in 1..(Len(result) - 1) : result[k].t <= result[k + 1].t
        /\ \A c \in 1..Len(childXs), t \in 1..MaxT :
               Count(result, [t |-> t, object |-> children[1][c]]) = Returned(c, t)
        /\ \A k \in 1..Len(result) :
               \E c \in 1..Len(childXs) : result[k].object = children[1][c]
        /\ Len(result) = Len(FlatMap(childXs, 1))

\* C7 witness: the later child is hit first, so the collected list was unsorted
C7_Witness ==
    /\ pc = "sorted"
    /\ Len(childXs) = MaxChildren
    /\ Len(result) >= 3
    /\ result[1].object = children[1][Len(childXs)]
    /\ result[1].t < result[Len(result)].t
    /\ result # xs

----------------------------------------------------------------------------
(* Building and refreshing trees *)

InitTreeSpec == InitTree /\ ParkCsg /\ ParkComps /\ childXs = <<>> /\ ParkShade /\ ParkRest

NextRefresh ==
    \/ NewPrimWith /\ UNCHANGED <<csgVars, compsVars, childXs, shadeVars, restVars>>
    \/ NewGroupWith /\ UNCHANGED <<csgVars, compsVars, childXs, shadeVars, restVars>>
    \/ NewCsg /\ UNCHANGED <<csgVars, compsVars, childXs, shadeVars, restVars>>
    \/ add_child /\ UNCHANGED <<csgVars, compsVars, childXs, shadeVars, restVars>>
    \/ refresh_parents /\ UNCHANGED <<csgVars, compsVars, childXs, shadeVars, restVars>>

SpecRefresh == InitTreeSpec /\ [][NextRefresh]_vars

\* The nodes below n, at every depth
Descendants(n) == {d \in Nodes : n \in Range(Ancestors(d))}

TransformsOf(ns) == [i \in 1..Len(ns) |-> transform[ns[i]]]
InversesOf(ns) == [i \in 1..Len(ns) |-> Inverse(transform[ns[i]])]

\* C8: after refresh_parents on the root of a tree every descendant at every
\* depth, also below a Csg node, holds the transforms of its ancestors from the
\* root down to its direct parent, and the matching inverses.
C8_AncestorLists ==
    refreshed # 0 =>
        \A d \in Descendants(refreshed) :
            /\ parentTransforms[d] = TransformsOf(Ancestors(d))
            /\ parentInverses[d] = InversesOf(Ancestors(d))

\* The nearest ancestor of d that is a Group (0 when there is none)
RECURSIVE NearestGroup(_)
NearestGroup(d) ==
    IF ParentOf(d) = 0 THEN 0
    ELSE IF kind[ParentOf(d)] = "Group" THEN ParentOf(d)
    ELSE NearestGroup(ParentOf(d))

\* C9: after refresh_parents on a group every descendant whose material was
\* left unset has the material of its nearest ancestor group, and every
\* descendant whose material the scene author set keeps that material.
C9_MaterialInherited ==
    refreshed # 0 =>
        \A d \in Descendants(refreshed) :
            IF authored[d].set
            THEN material[d] = authored[d].m
            ELSE material[d] = material[NearestGroup(d)]

\* C10: node.includes(other) is true iff other is one of the primitive shapes
\* of node's subtree (for a primitive, the shape itself); an empty Group
\* includes nothing.
C10_Includes ==
    \A n \in Nodes, other \in Nodes :
        Includes(n, other) <=> other \in LeavesUnder(n)

----------------------------------------------------------------------------
(* Claims about hit and prepare_computations *)

\* C4: hit, on a list sorted ascending by t, returns the intersection with the
\* smallest non-negative t (t >= 0), the earliest in list order among equal t
\* values, and None when the list is empty or every t is negative.
C4_HitSmallestNonNegative ==
    pc = "hit" =>
        IF \E k \in 1..Len(xs) : xs[k].t >= 0
        THEN /\ hitIdx # 0
             /\ xs[hitIdx].t >= 0
             /\ \A j \in 1..Len(xs) :
                    xs[j].t >= 0 =>
                        \/ xs[hitIdx].t < xs[j].t
                        \/ xs[hitIdx].t = xs[j].t /\ hitIdx <= j
        ELSE hitIdx = 0

\* Toggling an object in the list of containers: out if it is in, else in at the end
RefToggle(c, o) ==
    IF o \in Range(c) THEN SelectSeq(c, LAMBDA e : e # o) ELSE Append(c, o)

RECURSIVE RefContainers(_)
\* The containers after the first n intersections of xs were toggled
RefContainers(n) ==
    IF n = 0 THEN <<>> ELSE RefToggle(RefContainers(n - 1), xs[n].object)

RefIndex(c) == IF c = <<>> THEN 10 ELSE refractive_index(material[c[Len(c)]])

\* Where the hit stands in the list (an intersection is its t and its object)
HitPos == CHOOSE p \in 1..Len(xs) : xs[p] = self /\ \A q \in 1..(p - 1) : xs[q] # self

\* (n1, n2) of the six intersections of the three glass spheres, in tenths
ExampleN == << <<10, 15>>, <<15, 20>>, <<20, 25>>, <<25, 25>>, <<25, 15>>, <<15, 10>> >>

\* C5: prepare_computations scans the sorted list from its start up to and
\* including the hit, toggling each scanned object in containers by identity;
\* n1 is the refractive index of the last container just before the hit's own
\* toggle, n2 the one just after it, each 1.0 when containers is empty; for
\* A(1.5), B(2.0), C(2.5) crossed in the order A,B,C,B,C,A this gives
\* (1,1.5),(1.5,2),(2,2.5),(2.5,2.5),(2.5,1.5),(1.5,1).
C5_RefractiveIndices ==
    pc = "done" =>
        /\ pidx = HitPos + 1
        /\ containers = RefContainers(HitPos)
        /\ n1 = RefIndex(RefContainers(HitPos - 1))
        /\ n2 = RefIndex(RefContainers(HitPos))
        /\ (xs = ExampleXs /\ material = ExampleMaterials) =>
               <<n1, n2>> = ExampleN[HitPos]

----------------------------------------------------------------------------
(* World::color_at, shade_hit, reflected_color, refracted_color *)

\* Material coefficients in tenths; material 2 and 3 reflect, 1 and 3 transmit
reflective(m) == IF m \in {2, 3} THEN 5 ELSE 0
transparency(m) == IF m \in {1, 3} THEN 5 ELSE 0

\* A matte, a glass, a mirror and a glassy mirror
ShadeWorld ==
    /\ kind = <<"Prim", "Prim", "Prim", "Prim">>
    /\ children = << <<>>, <<>>, <<>>, <<>> >>
    /\ material = <<0, 1, 2, 3>>
    /\ DefaultPropsBut(4)

\* A call of color_at(ray, remaining): it has not intersected the world yet
Frame(r) == [remaining |-> r, object |-> 0, light |-> 0, phase |-> "color_at"]

InitShade ==
    /\ ShadeWorld
    /\ nLights \in 0..MaxLights
    /\ depth0 \in 0..MaxDepth
    /\ stack = <<Frame(depth0)>>
    /\ outcome = "running"
    /\ lastCall = NoCall

Top == stack[Len(stack)]
SetTop(f) == [stack EXCEPT ![Len(stack)] = f]

\* color_at: no hit, the colour is black
ColorAtMiss ==
    /\ outcome = "running"
    /\ Top.phase = "color_at"
    /\ stack' = SetTop([Top EXCEPT !.phase = "return"])
    /\ UNCHANGED <<nLights, depth0, outcome, lastCall>>

\* color_at: a hit on object o; prepare_computations, then shade_hit, whose
\* cs.next().unwrap() panics when the world has no light; otherwise the first
\* light's closure runs: lighting (with is_shadowed), then reflected_color
ColorAtHit ==
    /\ outcome = "running"
    /\ Top.phase = "color_at"
    /\ \E o \in Nodes :
          IF nLights = 0
          THEN /\ outcome' = "panicked"
               /\ stack' = <<>>
          ELSE /\ stack' = SetTop([Top EXCEPT !.object = o, !.light = 1,
                                              !.phase = "reflected"])
               /\ UNCHANGED outcome
    /\ UNCHANGED <<nLights, depth0, lastCall>>

\* color_at(&ray, remaining - 1) called from a frame that goes on with `next`
CallColorAt(r, next) ==
    Append(SetTop([Top EXCEPT !.phase = next]), Frame(r - 1))

\* reflected_color passing its own remaining depth on
reflected_color_SameDepth ==
    /\ outcome = "running"
    /\ Top.phase = "reflected"
    /\ LET r == Top.remaining
           c == reflective(material[Top.object])
           stop == r = 0 \/ c = 0
       IN  /\ stack' = IF stop \/ Len(stack) > MaxDepth + 2
                       THEN SetTop([Top EXCEPT !.phase = "refracted"])
                       ELSE Append(SetTop([Top EXCEPT !.phase = "refracted"]), Frame(r))
           /\ lastCall' = [fn |-> "reflected_color", remaining |-> r,
                           coefficient |-> c, tir |-> FALSE,
                           calls |-> IF stop THEN 0 ELSE 1,
                           depth |-> r, black |-> stop]
    /\ UNCHANGED <<nLights, depth0, outcome>>

\* World::reflected_color
reflected_color ==
    /\ outcome = "running"
    /\ Top.phase = "reflected"
    /\ LET r == Top.remaining
           c == reflective(material[Top.object])
           stop == r = 0 \/ c = 0
       IN  /\ stack' = IF stop
                       THEN SetTop([Top EXCEPT !.phase = "refracted"])
                       ELSE CallColorAt(r, "refracted")
           /\ lastCall' = [fn |-> "reflected_color", remaining |-> r,
                           coefficient |-> c, tir |-> FALSE,
                           calls |-> IF stop THEN 0 ELSE 1,
                           depth |-> IF stop THEN 0 ELSE r - 1, black |-> stop]
    /\ UNCHANGED <<nLights, depth0, outcome>>

\* What the frame does once refracted_color is over: the closure of the next
\* light, or the sum is returned
AfterRefracted(f) ==
    IF f.light < nLights
    THEN [f EXCEPT !.light = f.light + 1, !.phase = "reflected"]
    ELSE [f EXCEPT !.phase = "return"]

\* refracted_color without its remaining == 0 test
refracted_color_NoDepthTest ==
    /\ outcome = "running"
    /\ Top.phase = "refracted"
    /\ \E tir \in BOOLEAN :
          LET r == Top.remaining
              c == transparency(material[Top.object])
              stop == c = 0 \/ Len(stack) > MaxDepth + 2
          IN  /\ stack' = IF stop \/ tir
                          THEN SetTop(AfterRefracted(Top))
                          ELSE Append(SetTop(AfterRefracted(Top)), Frame(r - 1))
              /\ lastCall' = [fn |-> "refracted_color", remaining |-> r,
                              coefficient |-> c, tir |-> ~stop /\ tir,
                              calls |-> IF stop \/ tir THEN 0 ELSE 1,
                              depth |-> IF stop \/ tir THEN 0 ELSE r - 1,
                              black |-> stop \/ tir]
    /\ UNCHANGED <<nLights, depth0, outcome>>

\* World::refracted_color; tir: sin2_t > 1.0
refracted_color ==
    /\ outcome = "running"
    /\ Top.phase = "refracted"
    /\ \E tir \in BOOLEAN :
          LET r == Top.remaining
              c == transparency(material[Top.object])
              stop == r = 0 \/ c = 0
          IN  /\ stack' = IF stop \/ tir
                          THEN SetTop(AfterRefracted(Top))
                          ELSE Append(SetTop(AfterRefracted(Top)), Frame(r - 1))
              /\ lastCall' = [fn |-> "refracted_color", remaining |-> r,
                              coefficient |-> c, tir |-> ~stop /\ tir,
                              calls |-> IF stop \/ tir THEN 0 ELSE 1,
                              depth |-> IF stop \/ tir THEN 0 ELSE r - 1,
                              black |-> stop \/ tir]
    /\ UNCHANGED <<nLights, depth0, outcome>>

\* color_at returns to the call that made it
Return ==
    /\ outcome = "running"
    /\ Top.phase = "return"
    /\ stack' = SubSeq(stack, 1, Len(stack) - 1)
    /\ outcome' = IF Len(stack) = 1 THEN "returned" ELSE "running"
    /\ UNCHANGED <<nLights, depth0, lastCall>>

NextShade ==
    \/ ColorAtMiss /\ UNCHANGED <<treeVars, csgVars, compsVars, childXs, restVars>>
    \/ ColorAtHit /\ UNCHANGED <<treeVars, csgVars, compsVars, childXs, restVars>>
    \/ reflected_color /\ UNCHANGED <<treeVars, csgVars, compsVars, childXs, restVars>>
    \/ refracted_color /\ UNCHANGED <<treeVars, csgVars, compsVars, childXs, restVars>>
    \/ Return /\ UNCHANGED <<treeVars, csgVars, compsVars, childXs, restVars>>

InitShadeSpec == InitShade /\ ParkCsg /\ ParkComps /\ childXs = <<>> /\ ParkRest

SpecShade == InitShadeSpec /\ [][NextShade]_vars

\* The calls run on one thread: a call that can take its next step takes it
SpecShadeLive == InitShadeSpec /\ [][NextShade]_vars /\ WF_vars(NextShade)

\* Every nested color_at has one less remaining depth than its caller, none
\* has less than 0, and there are at most depth0 + 1 of them
DepthDiscipline ==
    /\ Len(stack) <= depth0 + 1
    /\ \A k \in 1..Len(stack) :
          /\ stack[k].remaining >= 0
          /\ stack[k].remaining = IF k = 1 THEN depth0 ELSE stack[k - 1].remaining - 1

\* C3: color_at(ray, d) ends in every world and for every d: each nested
\* color_at gets exactly one less remaining depth than its caller, no call is
\* made at remaining depth 0, and the chain of nested calls is never longer
\* than d + 1
C3_DepthBounded == []DepthDiscipline /\ <>(outcome # "running")

C3_Witness ==
    /\ depth0 = MaxDepth
    /\ Len(stack) = depth0 + 1
    /\ Top.remaining = 0
    /\ Top.phase = "return"
    /\ lastCall.fn = "reflected_color"

\* The coefficient the call in progress looks at
Coefficient(f) ==
    IF f.phase = "reflected" THEN reflective(material[f.object])
    ELSE transparency(material[f.object])

\* C6: reflected_color and refracted_color return black without calling
\* color_at when the remaining depth is 0 or their coefficient is 0; otherwise,
\* unless there is total internal reflection, they make exactly one color_at
\* call, with depth remaining - 1
C6_GuardedCall ==
    [][(outcome = "running" /\ Top.phase \in {"reflected", "refracted"}) =>
         IF Top.remaining = 0 \/ Coefficient(Top) = 0
         THEN /\ Len(stack') = Len(stack)
              /\ lastCall'.black
              /\ lastCall'.calls = 0
         ELSE \/ /\ lastCall'.tir
                 /\ Len(stack') = Len(stack)
              \/ /\ ~lastCall'.tir
                 /\ lastCall'.calls = 1
                 /\ stack' = Append(SubSeq(stack', 1, Len(stack)),
                                    Frame(Top.remaining - 1))]_vars

C6_Witness ==
    /\ lastCall.fn = "refracted_color"
    /\ lastCall.remaining = 1
    /\ lastCall.calls = 1
    /\ Len(stack) = depth0 + 1
    /\ Top = Frame(0)

----------------------------------------------------------------------------
(* World::intersect and World::is_shadowed *)

\* Where a light can stand, seen from the point that is tested
Positions == {"near", "far"}

\* v.magnitude() of the vector from the point to a light at position p
Distance(p) == IF p = "near" THEN 2 ELSE 3

\* Two primitives with Props::default(); each is a surface a ray meets at most once
ShadowWorld ==
    /\ kind = <<"Prim", "Prim">>
    /\ children = << <<>>, <<>> >>
    /\ DefaultProps(kind)

InitShadow ==
    /\ ShadowWorld
    /\ lights = <<>>
    /\ objHits \in [Positions -> [1..2 -> SeqsUpTo((0 - 1)..MaxShadowT, 1)]]
    /\ castsShadow = <<TRUE, TRUE>>
    /\ shadowed = "none"

\* World::intersect for the ray toward position p: every object's
\* intersections appended, then sorted by t
WorldIntersect(p) ==
    sort_by_t(FlatMap([o \in 1..Len(kind) |->
                          [j \in 1..Len(objHits[p][o]) |->
                              [t |-> objHits[p][o][j], object |-> o]]], 1))

\* The test of is_shadowed taking the nearest intersection whatever its sign
IsShadowedToward_FirstOfList(p) ==
    LET ixs == WorldIntersect(p)
    IN  Len(ixs) > 0 /\ ixs[1].t < Distance(p)

\* is_shadowed for a light at position p: intersections.hit() is Some(h) and
\* h.t < distance
IsShadowedToward(p) ==
    LET ixs == WorldIntersect(p)
        h == hit(ixs)
    IN  h # 0 /\ ixs[h].t < Distance(p)

\* The light is_shadowed uses, taken to be the last one
ShadowLight_Last == Len(lights)

\* self.lights[0], counting from 1
ShadowLight == 1

\* World::is_shadowed(point); indexing an empty lights panics
is_shadowed ==
    /\ shadowed' = IF Len(lights) = 0 THEN "panicked"
                   ELSE IF IsShadowedToward(lights[ShadowLight]) THEN "true"
                   ELSE "false"
    /\ UNCHANGED <<lights, objHits, castsShadow>>

\* world.lights.push(light)
AddLight ==
    /\ shadowed # "panicked"
    /\ Len(lights) < MaxLights
    /\ \E p \in Positions : lights' = Append(lights, p)
    /\ UNCHANGED <<objHits, castsShadow, shadowed>>

\* world.lights.remove(k) of a light other than the first
RemoveLight ==
    /\ shadowed # "panicked"
    /\ \E k \in 2..Len(lights) :
          lights' = [j \in 1..(Len(lights) - 1) |-> IF j < k THEN lights[j] ELSE lights[j + 1]]
    /\ UNCHANGED <<objHits, castsShadow, shadowed>>

\* A light other than the first is given another position
MoveLight ==
    /\ shadowed # "panicked"
    /\ \E k \in 2..Len(lights) :
          \E p \in Positions \ {lights[k]} : lights' = [lights EXCEPT ![k] = p]
    /\ UNCHANGED <<objHits, castsShadow, shadowed>>

\* shape.set_shadow(shadow)
set_shadow ==
    /\ shadowed # "panicked"
    /\ \E o \in 1..Len(castsShadow), b \in BOOLEAN :
          /\ castsShadow[o] # b
          /\ castsShadow' = [castsShadow EXCEPT ![o] = b]
    /\ UNCHANGED <<lights, objHits, shadowed>>

NextShadow ==
    \/ is_shadowed /\ UNCHANGED <<treeVars, csgVars, compsVars, childXs, shadeVars, hitVars, renderVars, ppmVars, graphVars, uvVars, objVars, canvasVars, repeatVars, chainVars, coneVars>>
    \/ AddLight /\ UNCHANGED <<treeVars, csgVars, compsVars, childXs, shadeVars, hitVars, renderVars, ppmVars, graphVars, uvVars, objVars, canvasVars, repeatVars, chainVars, coneVars>>
    \/ RemoveLight /\ UNCHANGED <<treeVars, csgVars, compsVars, childXs, shadeVars, hitVars, renderVars, ppmVars, graphVars, uvVars, objVars, canvasVars, repeatVars, chainVars, coneVars>>
    \/ MoveLight /\ UNCHANGED <<treeVars, csgVars, compsVars, childXs, shadeVars, hitVars, renderVars, ppmVars, graphVars, uvVars, objVars, canvasVars, repeatVars, chainVars, coneVars>>
    \/ set_shadow /\ UNCHANGED <<treeVars, csgVars, compsVars, childXs, shadeVars, hitVars, renderVars, ppmVars, graphVars, uvVars, objVars, canvasVars, repeatVars, chainVars, coneVars>>

InitShadowSpec ==
    InitShadow /\ ParkCsg /\ ParkComps /\ childXs = <<>> /\ ParkShade /\ ParkHit /\ ParkRender /\ ParkPpm /\ ParkGraph /\ ParkUv /\ ParkObj /\ ParkCanvas /\ ParkRepeat /\ ParkChain /\ ParkCone

SpecShadow == InitShadowSpec /\ [][NextShadow]_vars

\* Object o stands between the point and a light at position p
Blocks(o, p) ==
    \E j \in 1..Len(objHits[p][o]) :
        objHits[p][o][j] > 0 /\ objHits[p][o][j] < Distance(p)

\* C11: is_shadowed returns true iff the ray from the point toward the light
\* has an intersection with positive t strictly less than the distance to the
\* light; an object beyond the light or behind the point causes no shadow.
C11_ShadowedIffBlocked ==
    shadowed \in {"true", "false"} =>
        (shadowed = "true" <=> \E o \in 1..Len(kind) : Blocks(o, lights[1]))

\* One object behind the point, the other beyond the light: no shadow
C11_Witness ==
    /\ shadowed = "false"
    /\ Len(lights) > 0
    /\ \E o \in 1..2 : objHits[lights[1]][o] = <<0 - 1>>
    /\ \E o \in 1..2 : objHits[lights[1]][o] = <<Distance(lights[1]) + 1>>

\* C18: the result of is_shadowed is determined by lights[0] alone: adding,
\* removing or moving any other light does not change it.
C18_FirstLightOnly ==
    [][(shadowed \in {"true", "false"} /\ shadowed' \in {"true", "false"})
          => shadowed' = shadowed]_vars

\* The point is shadowed from the first light while a second light, standing
\* elsewhere, sees the point unobstructed
C18_Witness ==
    /\ shadowed = "true"
    /\ Len(lights) = 2
    /\ lights[2] # lights[1]
    /\ ~IsShadowedToward(lights[2])

\* C19: a shape whose shadow flag is false never causes is_shadowed to return
\* true: when is_shadowed answers true, a shape that casts shadows stands
\* between the point and the light.
C19_ShadowFlag ==
    [][(shadowed # "true" /\ shadowed' = "true")
          => \E o \in 1..Len(kind) : castsShadow[o] /\ Blocks(o, lights[1])]_vars

----------------------------------------------------------------------------
(* World::shade_hit: the sum over the lights *)

\* Colours are integers, in halves of a unit. reflected_color and
\* refracted_color are black unless the material reflects, respectively
\* transmits; schlick is only consulted when it does both.
InitHit ==
    /\ ShadeWorld
    /\ surface \in SeqsUpTo({0, 1}, MaxLights)
    /\ hitMaterial \in Range(material)
    /\ reflectedVal \in IF reflective(hitMaterial) > 0 THEN {0, 2} ELSE {0}
    /\ refractedVal \in IF transparency(hitMaterial) > 0 THEN {0, 2} ELSE {0}
    /\ reflectance \in IF reflective(hitMaterial) > 0 /\ transparency(hitMaterial) > 0
                       THEN 0..2 ELSE {0}
    /\ color = 0
    /\ lightIdx = 0
    /\ shadePc = "start"

\* The closure of shade_hit for light l: surface, reflected and refracted,
\* weighted by the reflectance when the material reflects and transmits
LightTerm(l) ==
    IF reflective(hitMaterial) > 0 /\ transparency(hitMaterial) > 0
    THEN surface[l] + (reflectedVal * reflectance) \div 2
                    + (refractedVal * (2 - reflectance)) \div 2
    ELSE surface[l] + reflectedVal + refractedVal

\* let mut color = cs.next().unwrap();
ShadeFirst ==
    /\ shadePc = "start"
    /\ IF Len(surface) = 0
       THEN /\ shadePc' = "panicked"
            /\ UNCHANGED <<color, lightIdx>>
       ELSE /\ color' = LightTerm(1)
            /\ lightIdx' = 1
            /\ shadePc' = "summing"
    /\ UNCHANGED <<surface, hitMaterial, reflectedVal, refractedVal, reflectance>>

\* for c in cs { color = color + c; }
ShadeNext ==
    /\ shadePc = "summing"
    /\ lightIdx < Len(surface)
    /\ color' = color + LightTerm(lightIdx + 1)
    /\ lightIdx' = lightIdx + 1
    /\ UNCHANGED <<surface, hitMaterial, reflectedVal, refractedVal, reflectance, shadePc>>

\* color
ShadeReturn ==
    /\ shadePc = "summing"
    /\ lightIdx = Len(surface)
    /\ shadePc' = "returned"
    /\ UNCHANGED <<surface, hitMaterial, reflectedVal, refractedVal, reflectance,
                   color, lightIdx>>

NextHit ==
    \/ ShadeFirst /\ UNCHANGED <<treeVars, csgVars, compsVars, childXs, shadeVars, shadowVars, renderVars, ppmVars, graphVars, uvVars, objVars, canvasVars, repeatVars, chainVars, coneVars>>
    \/ ShadeNext /\ UNCHANGED <<treeVars, csgVars, compsVars, childXs, shadeVars, shadowVars, renderVars, ppmVars, graphVars, uvVars, objVars, canvasVars, repeatVars, chainVars, coneVars>>
    \/ ShadeReturn /\ UNCHANGED <<treeVars, csgVars, compsVars, childXs, shadeVars, shadowVars, renderVars, ppmVars, graphVars, uvVars, objVars, canvasVars, repeatVars, chainVars, coneVars>>

InitHitSpec ==
    InitHit /\ ParkCsg /\ ParkComps /\ childXs = <<>> /\ ParkShade /\ ParkShadow /\ ParkRender /\ ParkPpm /\ ParkGraph /\ ParkUv /\ ParkObj /\ ParkCanvas /\ ParkRepeat /\ ParkChain /\ ParkCone

SpecHit == InitHitSpec /\ [][NextHit]_vars

RECURSIVE SumTo(_, _)
\* The sum of the first n elements of a sequence
SumTo(q, n) == IF n = 0 THEN 0 ELSE SumTo(q, n - 1) + q[n]

\* The reflected and refracted contribution, Fresnel-blended when the material
\* reflects and transmits
Secondary ==
    IF reflective(hitMaterial) > 0 /\ transparency(hitMaterial) > 0
    THEN (reflectedVal * reflectance) \div 2 + (refractedVal * (2 - reflectance)) \div 2
    ELSE reflectedVal + refractedVal

\* C12: shade_hit returns the sum over all lights of the Phong contribution
\* plus reflected_color plus refracted_color, the last two added once to the
\* total whatever the number of lights.
C12_SecondaryAddedOnce ==
    shadePc = "returned" => color = SumTo(surface, Len(surface)) + Secondary

\* C13: nothing panics on a valid scene: for every world, with any number of
\* lights (also none), color_at returns a colour.
C13_NoPanic == outcome # "panicked"

----------------------------------------------------------------------------
(* Camera::render *)

\* The colour Canvas::new fills in: the colour of no ray
Black == [ray |-> <<>>, remaining |-> 0]

\* The depth render passes to color_at
RenderDepth == 4

\* Canvas::new
CanvasNew(w, h) ==
    /\ width = w
    /\ height = h
    /\ pixels = [i \in 1..(w * h) |-> Black]

\* Canvas::xy, from 0
xy(x, y) == x + y * width

\* Canvas::write_pixel without the test of x and y
write_pixel_NoBoundsCheck(v, x, y, c) ==
    IF xy(x, y) + 1 \in DOMAIN v THEN [v EXCEPT ![xy(x, y) + 1] = c] ELSE v

\* Canvas::write_pixel, on a vector such as pixels
write_pixel(v, x, y, c) ==
    IF x >= width \/ y >= height THEN v
    ELSE [v EXCEPT ![xy(x, y) + 1] = c]

\* Canvas::pixel_at
pixel_at(x, y) == pixels[xy(x, y) + 1]

\* What world.color_at(&self.ray_for_pixel(x, y), remaining) returns: the
\* colour of that ray at that depth
ColorAt(x, y, remaining) == [ray |-> <<x, y>>, remaining |-> remaining]

InitRender ==
    /\ hsize \in 0..MaxSize
    /\ vsize \in 0..MaxSize
    /\ CanvasNew(hsize, vsize)
    /\ written = [i \in 1..(hsize * vsize) |-> 0]
    /\ rx = 0
    /\ ry = 0
    /\ renderPc = "loop"

\* The loops of render restarting every row at x = 1
NextPixel_FromOne(x, y) == IF x + 1 < hsize THEN <<x + 1, y>> ELSE <<1, y + 1>>

\* for y in 0..vsize { for x in 0..hsize: the pixel after (x, y)
NextPixel(x, y) == IF x + 1 < hsize THEN <<x + 1, y>> ELSE <<0, y + 1>>

\* One turn of the inner loop
RenderPixel ==
    /\ renderPc = "loop"
    /\ rx < hsize
    /\ ry < vsize
    /\ pixels' = write_pixel(pixels, rx, ry, ColorAt(rx, ry, RenderDepth))
    /\ written' = write_pixel(written, rx, ry, written[xy(rx, ry) + 1] + 1)
    /\ rx' = NextPixel(rx, ry)[1]
    /\ ry' = NextPixel(rx, ry)[2]
    /\ UNCHANGED <<hsize, vsize, width, height, renderPc>>

\* color_at panics (a hit in a world without lights)
RenderPanic ==
    /\ renderPc = "loop"
    /\ rx < hsize
    /\ ry < vsize
    /\ renderPc' = "panicked"
    /\ UNCHANGED <<hsize, vsize, width, height, pixels, written, rx, ry>>

\* image
RenderReturn ==
    /\ renderPc = "loop"
    /\ hsize = 0 \/ ry >= vsize
    /\ renderPc' = "returned"
    /\ UNCHANGED <<hsize, vsize, width, height, pixels, written, rx, ry>>

NextRender ==
    \/ RenderPixel /\ UNCHANGED <<treeVars, csgVars, compsVars, childXs, shadeVars, shadowVars, hitVars, ppmVars, graphVars, uvVars, objVars, canvasVars, repeatVars, chainVars, coneVars>>
    \/ RenderPanic /\ UNCHANGED <<treeVars, csgVars, compsVars, childXs, shadeVars, shadowVars, hitVars, ppmVars, graphVars, uvVars, objVars, canvasVars, repeatVars, chainVars, coneVars>>
    \/ RenderReturn /\ UNCHANGED <<treeVars, csgVars, compsVars, childXs, shadeVars, shadowVars, hitVars, ppmVars, graphVars, uvVars, objVars, canvasVars, repeatVars, chainVars, coneVars>>

InitRenderSpec ==
    /\ InitRender
    /\ kind = <<>> /\ children = <<>> /\ DefaultProps(kind)
    /\ ParkCsg /\ ParkComps /\ childXs = <<>> /\ ParkShade /\ ParkShadow /\ ParkHit /\ ParkPpm /\ ParkGraph /\ ParkUv /\ ParkObj /\ ParkCanvas /\ ParkRepeat /\ ParkChain /\ ParkCone

SpecRender == InitRenderSpec /\ [][NextRender]_vars

\* C14: render calls color_at(ray_for_pixel(x, y), 4) once per pixel and writes
\* the result to cell (x, y): no cell is ever written twice or by another
\* pixel, and in the returned canvas every cell was written exactly once and
\* holds the colour of its own pixel at depth 4.
C14_EveryCellOnce ==
    renderPc \in {"loop", "returned", "panicked"} =>
        \A x \in 0..(hsize - 1) : \A y \in 0..(vsize - 1) :
            /\ written[xy(x, y) + 1] <= 1
            /\ pixel_at(x, y) \in {Black, [ray |-> <<x, y>>, remaining |-> 4]}
            /\ written[xy(x, y) + 1] = 1 <=> pixel_at(x, y) # Black
            /\ renderPc = "returned" => written[xy(x, y) + 1] = 1

\* A canvas of several rows and columns was rendered and returned
C14_Witness ==
    /\ renderPc = "returned"
    /\ hsize >= 2
    /\ vsize >= 2
    /\ hsize # vsize
    /\ \A i \in 1..Len(pixels) : pixels[i] # Black

----------------------------------------------------------------------------
(* Canvas::to_ppm and the conversion of a Color to three bytes *)

\* The largest value of a component in the file
MaxByte == 255

\* The longest line to_ppm writes
LineLimit == 70

\* A colour component c is kept as the integer 510 * c, so that c * 255.0 is
\* half of it: components below 0, around 0, inside [0, 1] with one, two and
\* three digit bytes, around 1 and above 1.
Components ==
    {0 - 300, 0 - 2, 0 - 1, 0, 1, 2, 3, 19, 20, 21, 199, 200, 201, 509, 510, 511, 512, 900}

\* f64::round of k / 2: to the nearest integer, halves away from zero
Round(k) == IF k >= 0 THEN (k + 1) \div 2 ELSE 0 - ((1 - k) \div 2)

Min(a, b) == IF a < b THEN a ELSE b

Max(a, b) == IF a > b THEN a ELSE b

\* From<Color> for (usize, usize, usize) without the lower clamp
ToByte_NoFloor(k) == Min(MaxByte, Round(k))

\* From<Color> for (usize, usize, usize), one component:
\* min(255, max(0, (c * 255.0).round() as isize))
ToByte(k) == Min(MaxByte, Max(0, Round(k)))

RECURSIVE Digits(_)
\* number.to_string().len()
Digits(n) == IF n < 10 THEN 1 ELSE 1 + Digits(n \div 10)

\* The canvas to_ppm is called on. The content of pixels is any: a component
\* is drawn when to_ppm reads it.
InitPpm ==
    /\ width \in 0..MaxWidth
    /\ height \in 0..MaxHeight
    /\ pixels = <<>>
    /\ written = <<>>
    /\ hsize = 0
    /\ vsize = 0
    /\ rx = 0
    /\ ry = 0
    /\ renderPc = "idle"
    /\ header = <<>>
    /\ ppmRow = 0
    /\ ppmCol = 0
    /\ ppmComp = 0
    /\ readIdx = 0
    /\ lineI = 0
    /\ lineLen = 0
    /\ lastOut = "none"
    /\ prevOut = "none"
    /\ sep = "none"
    /\ lastComponent = 0
    /\ lastNumber = 0
    /\ ppmPc = "start"

\* format!("P3\n{} {}\n255\n", ...) and self.pixels.chunks(width), which
\* panics when width is 0
PpmStart ==
    /\ ppmPc = "start"
    /\ header' = <<"P3", <<width, height>>, "255">>
    /\ lastOut' = "newline"
    /\ ppmPc' = IF width = 0 THEN "panicked" ELSE "rows"
    /\ UNCHANGED <<ppmRow, ppmCol, ppmComp, readIdx, lineI, lineLen, prevOut, sep,
                   lastComponent, lastNumber>>

\* append(number), for the next component of the next pixel of the chunk
PpmAppend ==
    /\ ppmPc = "rows"
    /\ ppmRow < height
    /\ ppmCol < width
    /\ \E k \in Components :
         LET number == ToByte(k)
             len == Digits(number)
         IN  /\ lastComponent' = k
             /\ lastNumber' = number
             /\ prevOut' = lastOut
             /\ IF lineI = 0
                THEN /\ sep' = "none"
                     /\ lineI' = len
                     /\ lineLen' = lineLen + len
                ELSE IF len + lineI + 1 > LineLimit
                THEN /\ sep' = "newline"
                     /\ lineI' = len
                     /\ lineLen' = len
                ELSE /\ sep' = "space"
                     /\ lineI' = lineI + 1 + len
                     /\ lineLen' = lineLen + 1 + len
    /\ lastOut' = "digit"
    /\ IF ppmComp = 2
       THEN /\ ppmComp' = 0
            /\ ppmCol' = ppmCol + 1
            /\ readIdx' = readIdx + 1
       ELSE /\ ppmComp' = ppmComp + 1
            /\ UNCHANGED <<ppmCol, readIdx>>
    /\ UNCHANGED <<header, ppmRow, ppmPc>>

\* ppm += "\n" at the end of a chunk; the next chunk starts with i = 0
PpmEndRow ==
    /\ ppmPc = "rows"
    /\ ppmRow < height
    /\ ppmCol = width
    /\ lastOut' = "newline"
    /\ lineLen' = 0
    /\ lineI' = 0
    /\ ppmRow' = ppmRow + 1
    /\ ppmCol' = 0
    /\ UNCHANGED <<header, ppmComp, readIdx, prevOut, sep, lastComponent, lastNumber, ppmPc>>

\* ppm
PpmReturn ==
    /\ ppmPc = "rows"
    /\ ppmRow = height
    /\ ppmPc' = "returned"
    /\ UNCHANGED <<header, ppmRow, ppmCol, ppmComp, readIdx, lineI, lineLen, lastOut,
                   prevOut, sep, lastComponent, lastNumber>>

NextPpm ==
    \/ PpmStart /\ UNCHANGED <<treeVars, csgVars, compsVars, childXs, shadeVars, shadowVars, hitVars, renderVars, graphVars, uvVars, objVars, canvasVars, repeatVars, chainVars, coneVars>>
    \/ PpmAppend /\ UNCHANGED <<treeVars, csgVars, compsVars, childXs, shadeVars, shadowVars, hitVars, renderVars, graphVars, uvVars, objVars, canvasVars, repeatVars, chainVars, coneVars>>
    \/ PpmEndRow /\ UNCHANGED <<treeVars, csgVars, compsVars, childXs, shadeVars, shadowVars, hitVars, renderVars, graphVars, uvVars, objVars, canvasVars, repeatVars, chainVars, coneVars>>
    \/ PpmReturn /\ UNCHANGED <<treeVars, csgVars, compsVars, childXs, shadeVars, shadowVars, hitVars, renderVars, graphVars, uvVars, objVars, canvasVars, repeatVars, chainVars, coneVars>>

InitPpmSpec ==
    /\ InitPpm
    /\ kind = <<>> /\ children = <<>> /\ DefaultProps(kind)
    /\ ParkCsg /\ ParkComps /\ childXs = <<>> /\ ParkShade /\ ParkShadow /\ ParkHit
    /\ ParkGraph /\ ParkUv /\ ParkObj /\ ParkCanvas /\ ParkRepeat /\ ParkChain /\ ParkCone

SpecPpm == InitPpmSpec /\ [][NextPpm]_vars

\* A number was appended and nothing since
JustAppended == ppmPc = "rows" /\ lastOut = "digit"

\* The number last appended is the first of its row
FirstOfRow == ppmCol = 0 /\ ppmComp = 1

\* C15: for every canvas size and pixel content to_ppm emits, after the three
\* header lines, the pixels in row-major order; no line is longer than 70
\* characters; a line is broken only between two numbers; numbers on a line
\* are separated by exactly one space; each row starts on a new line and ends
\* with a newline.
C15_PpmLayout ==
    /\ ppmPc # "panicked"
    /\ ppmPc \in {"rows", "returned"} => Len(header) = 3
    /\ ppmPc = "rows" /\ ppmRow < height /\ ppmCol < width => readIdx = xy(ppmCol, ppmRow)
    /\ lineLen <= 70
    /\ JustAppended /\ FirstOfRow => sep = "none" /\ prevOut = "newline" /\ lineLen = Digits(lastNumber)
    /\ JustAppended /\ ~FirstOfRow => sep \in {"space", "newline"} /\ prevOut = "digit"
    /\ JustAppended /\ sep = "newline" => lineLen = Digits(lastNumber)
    /\ ppmPc = "rows" /\ ppmCol = 0 /\ ppmComp = 0 => lastOut = "newline" /\ lineLen = 0
    /\ ppmPc = "returned" => lastOut = "newline" /\ lineLen = 0

\* C16: export clamps the colours: a component below 0 gives 0, a component
\* above 1 gives 255, and a component c of [0, 1] gives round(c * 255).
C16_Clamp ==
    JustAppended =>
        lastNumber = IF lastComponent < 0 THEN 0
                     ELSE IF lastComponent > 510 THEN 255
                     ELSE Round(lastComponent)

\* A component below 0 was exported
C16_Witness == JustAppended /\ lastComponent < 0 /\ lastNumber = 0

----------------------------------------------------------------------------
(* Shape::intersect over a scene graph, World::intersect *)

\* Scene graphs: a group of primitives, a csg with a group, a group with a
\* csg, a group in a group, a primitive beside a group, an empty group
GraphTrees ==
    { [k |-> <<"Group", "Prim", "Prim">>,
       c |-> << <<2, 3>>, <<>>, <<>> >>],
      [k |-> <<"Csg", "Prim", "Group", "Prim">>,
       c |-> << <<2, 3>>, <<>>, <<4>>, <<>> >>],
      [k |-> <<"Group", "Csg", "Prim", "Prim", "Prim">>,
       c |-> << <<2, 5>>, <<3, 4>>, <<>>, <<>>, <<>> >>],
      [k |-> <<"Group", "Group", "Prim", "Prim">>,
       c |-> << <<2, 4>>, <<3>>, <<>>, <<>> >>],
      [k |-> <<"Prim", "Group", "Prim">>,
       c |-> << <<>>, <<3>>, <<>> >>],
      [k |-> <<"Group">>,
       c |-> << <<>> >>] }

\* The ray parameters a primitive is hit at
LeafTs == {1, 2}

InitGraph ==
    /\ \E tr \in GraphTrees :
          /\ kind = tr.k
          /\ children = tr.c
          /\ DefaultProps(tr.k)
          /\ leafXs \in [1..Len(tr.k) -> SeqsUpTo(LeafTs, MaxLeafXs)]
          /\ \A n \in 1..Len(tr.k) : tr.k[n] # "Prim" => leafXs[n] = <<>>
    /\ op \in Ops
    /\ worldXs = <<>>
    /\ objIdx = 0
    /\ ipc = "loop"

\* World.objects: the shapes without a parent, in order
Objects == SelectSeq([n \in 1..Len(kind) |-> n], LAMBDA n : ParentOf(n) = 0)

\* local_intersect of a primitive referencing its parent instead of itself
PrimIntersect_ParentAsObject(n) ==
    [j \in 1..Len(leafXs[n]) |->
        [t |-> leafXs[n][j], object |-> IF ParentOf(n) = 0 THEN n ELSE ParentOf(n)]]

\* local_intersect of a primitive: Intersection::new(t, self) for every t
PrimIntersect(n) ==
    [j \in 1..Len(leafXs[n]) |-> [t |-> leafXs[n][j], object |-> n]]

RECURSIVE FilterFrom(_, _, _, _, _)
\* Csg::filter_intersections of csg c, from element i of s with flags l and r
FilterFrom(c, s, i, l, r) ==
    IF i > Len(s) THEN <<>>
    ELSE LET side == IF Includes(children[c][1], s[i].object) THEN "Left" ELSE "Right"
             rest == FilterFrom(c, s, i + 1,
                                IF side = "Left" THEN ~l ELSE l,
                                IF side = "Left" THEN r ELSE ~r)
         IN  IF intersection_allowed(op, side, l, r) THEN <<s[i]>> \o rest ELSE rest

RECURSIVE Intersect(_)
\* Shape::intersect of node n: local_intersect of its variant, whose
\* intersections it returns as they are
Intersect(n) ==
    CASE kind[n] = "Group" ->
            sort_by_t(FlatMap([c \in 1..Len(children[n]) |-> Intersect(children[n][c])], 1))
      [] kind[n] = "Csg" ->
            FilterFrom(n, sort_by_t(Intersect(children[n][1]) \o Intersect(children[n][2])),
                       1, FALSE, FALSE)
      [] OTHER -> PrimIntersect(n)

\* xs.append(&mut obj.intersect(ray)) for the next object of the world
IntersectObject ==
    /\ ipc = "loop"
    /\ objIdx < Len(Objects)
    /\ worldXs' = worldXs \o Intersect(Objects[objIdx + 1])
    /\ objIdx' = objIdx + 1
    /\ UNCHANGED <<leafXs, ipc>>

\* xs.sort_by(..); xs
SortWorld ==
    /\ ipc = "loop"
    /\ objIdx = Len(Objects)
    /\ worldXs' = sort_by_t(worldXs)
    /\ ipc' = "returned"
    /\ UNCHANGED <<leafXs, objIdx>>

NextGraph ==
    \/ IntersectObject /\ UNCHANGED <<treeVars, csgVars, compsVars, childXs, shadeVars, shadowVars, hitVars, renderVars, ppmVars, uvVars, objVars, canvasVars, repeatVars, chainVars, coneVars>>
    \/ SortWorld /\ UNCHANGED <<treeVars, csgVars, compsVars, childXs, shadeVars, shadowVars, hitVars, renderVars, ppmVars, uvVars, objVars, canvasVars, repeatVars, chainVars, coneVars>>

InitGraphSpec ==
    /\ InitGraph
    /\ xs = <<>> /\ idx = 1 /\ inl = FALSE /\ inr = FALSE /\ result = <<>> /\ last = NoTest
    /\ ParkComps /\ childXs = <<>> /\ ParkShade
    /\ ParkShadow /\ ParkHit /\ ParkRender /\ ParkPpm /\ ParkUv /\ ParkObj /\ ParkCanvas /\ ParkRepeat /\ ParkChain /\ ParkCone

SpecGraph == InitGraphSpec /\ [][NextGraph]_vars

\* C17: Group and Csg are never an intersection target: every Intersection
\* that intersect returns, for the world and for every shape of the scene
\* graph, references a primitive leaf.
C17_LeafTargets ==
    /\ \A k \in 1..Len(worldXs) : kind[worldXs[k].object] = "Prim"
    /\ \A n \in Nodes : \A k \in 1..Len(Intersect(n)) :
           /\ kind[Intersect(n)[k].object] = "Prim"
           /\ Intersect(n)[k].object \in LeavesUnder(n)

\* The world returned the intersections of a primitive nested two levels deep
C17_Witness ==
    /\ ipc = "returned"
    /\ \E k \in 1..Len(worldXs) : Len(Ancestors(worldXs[k].object)) = 2

----------------------------------------------------------------------------
(* Triangle::local_intersect, Sphere::local_intersect: the uv of an Intersection *)

\* Option::None
None == <<>>

\* Intersection::new
IntersectionNew(t, object) == [t |-> t, object |-> object, uv |-> None]

\* Intersection::with_uv
IntersectionWithUv(t, object, u, v) == [t |-> t, object |-> object, uv |-> <<u, v>>]

Variants == {"Sphere", "Triangle", "SmoothTriangle"}

\* u and v of a ray, in tenths: outside the triangle, on its edges, inside
Barycentrics == {0 - 1, 0, 5, 10, 11}

\* One primitive (node 1) and a ray
InitUv ==
    /\ kind = <<"Prim">>
    /\ children = << <<>> >>
    /\ DefaultProps(kind)
    /\ variant \in Variants
    /\ rayD \in {0 - 1, 0, 1}
    /\ rayU \in Barycentrics
    /\ rayV \in Barycentrics
    /\ uvXs = <<>>
    /\ uvPc = "call"

\* Triangle::local_intersect, the same for Normal::Default and Normal::Smooth
TriangleIntersect ==
    /\ uvPc = "call"
    /\ variant \in {"Triangle", "SmoothTriangle"}
    /\ uvXs' = IF rayD = 0 THEN <<>>
               ELSE IF rayU < 0 \/ rayU > 10 THEN <<>>
               ELSE IF rayV < 0 \/ rayU + rayV > 10 THEN <<>>
               ELSE <<IntersectionWithUv(1, 1, rayU, rayV)>>
    /\ uvPc' = "returned"
    /\ UNCHANGED <<variant, rayD, rayU, rayV>>

\* Sphere::local_intersect
SphereIntersect ==
    /\ uvPc = "call"
    /\ variant = "Sphere"
    /\ uvXs' = IF rayD < 0 THEN <<>>
               ELSE <<IntersectionNew(1, 1), IntersectionNew(1 + rayD, 1)>>
    /\ uvPc' = "returned"
    /\ UNCHANGED <<variant, rayD, rayU, rayV>>

NextUv ==
    \/ TriangleIntersect /\ UNCHANGED <<treeVars, csgVars, compsVars, childXs, shadeVars, shadowVars, hitVars, renderVars, ppmVars, graphVars, objVars, canvasVars, repeatVars, chainVars, coneVars>>
    \/ SphereIntersect /\ UNCHANGED <<treeVars, csgVars, compsVars, childXs, shadeVars, shadowVars, hitVars, renderVars, ppmVars, graphVars, objVars, canvasVars, repeatVars, chainVars, coneVars>>

InitUvSpec ==
    /\ InitUv
    /\ ParkCsg /\ ParkComps /\ childXs = <<>> /\ ParkShade
    /\ ParkShadow /\ ParkHit /\ ParkRender /\ ParkPpm /\ ParkGraph /\ ParkObj /\ ParkCanvas /\ ParkRepeat /\ ParkChain /\ ParkCone

SpecUv == InitUvSpec /\ [][NextUv]_vars

\* C20: the uv of an Intersection is populated only by smooth triangles: an
\* intersection with a flat triangle or with another shape has uv = None, an
\* intersection with a smooth triangle has uv = Some((u, v)).
C20_UvOnlySmooth ==
    uvPc = "returned" =>
        \A k \in 1..Len(uvXs) :
            IF variant = "SmoothTriangle"
            THEN uvXs[k].uv = <<rayU, rayV>>
            ELSE uvXs[k].uv = None

----------------------------------------------------------------------------
(* ObjParser: parse, fan_triangulation, into_group *)

\* Element i of a Vec, counted from 0
At0(v, i) == v[i + 1]

\* The point the k-th v line of the file gives
PointOf(k) == 10 * k

\* The dummy entry vertices and normals start with
DummyPoint == 0

GroupNames == {"A", "B"}

\* The increasing sequence of the elements of a set of numbers
Ascending(S) ==
    CHOOSE f \in [1..Cardinality(S) -> S] :
        \A i \in 1..(Cardinality(S) - 1) : f[i] < f[i + 1]

Reverse(f) == [i \in 1..Len(f) |-> f[Len(f) + 1 - i]]

\* The f lines of a file with nv vertices: polygons of three or more of
\* them, listed in either direction
FaceLines(nv) ==
    LET polys == {S \in SUBSET (1..nv) : Cardinality(S) >= 3}
    IN  {Ascending(S) : S \in polys} \cup {Reverse(Ascending(S)) : S \in polys}

\* ObjParser::from_str before it calls parse
InitObj ==
    /\ lines_ignored = 0
    /\ vertices = <<DummyPoint>>
    /\ normals = <<DummyPoint>>
    /\ default_group = <<>>
    /\ groups = [n \in {} |-> <<>>]
    /\ current_group = <<>>
    /\ objLine = NoLine
    /\ linesRead = 0
    /\ faceTotal = 0
    /\ objGroup = <<>>
    /\ objPc = "parsing"

\* parse_faces: the indices of the line after a dummy entry
parse_faces(f) == <<0>> \o f

\* fan_triangulation making a strip: each triangle from three successive vertices
fan_triangulation_Strip(idxs) ==
    [j \in 1..(Len(idxs) - 3) |->
        LET at == j + 1
        IN  <<At0(vertices, At0(idxs, at - 1)),
              At0(vertices, At0(idxs, at)),
              At0(vertices, At0(idxs, at + 1))>>]

\* fan_triangulation: for idx in 2..idxs.len() - 1, the triangle of the first
\* vertex, vertex idx and vertex idx + 1
fan_triangulation(idxs) ==
    [j \in 1..(Len(idxs) - 3) |->
        LET at == j + 1
        IN  <<At0(vertices, At0(idxs, 1)),
              At0(vertices, At0(idxs, at)),
              At0(vertices, At0(idxs, at + 1))>>]

\* The group of an f line when current_group is never consulted
TargetGroup_Default == <<>>

\* The group an f line adds to: <<name>> for groups[name], <<>> for default_group
TargetGroup == current_group

\* The line read, common to every command
ReadLine(l) ==
    /\ objPc = "parsing"
    /\ linesRead < MaxLines
    /\ objLine' = l
    /\ linesRead' = linesRead + 1

\* "v": self.vertices.push(..)
ParseV ==
    /\ Len(vertices) <= MaxVertices
    /\ ReadLine(Line("v", "", <<>>))
    /\ vertices' = Append(vertices, PointOf(Len(vertices)))
    /\ UNCHANGED <<lines_ignored, normals, default_group, groups, current_group,
                   faceTotal, objGroup, objPc>>

\* "vn": self.normals.push(..)
ParseVn ==
    /\ Len(normals) <= 1
    /\ ReadLine(Line("vn", "", <<>>))
    /\ normals' = Append(normals, PointOf(Len(normals)))
    /\ UNCHANGED <<lines_ignored, vertices, default_group, groups, current_group,
                   faceTotal, objGroup, objPc>>

\* "f": every triangle of the fan is added to the current group
ParseF ==
    /\ \E f \in FaceLines(Len(vertices) - 1) :
          LET triangles == fan_triangulation(parse_faces(f))
          IN  /\ ReadLine(Line("f", "", f))
              /\ faceTotal' = faceTotal + (Len(f) - 2)
              /\ IF TargetGroup # <<>>
                 THEN /\ groups' = [groups EXCEPT ![TargetGroup[1]] = @ \o triangles]
                      /\ UNCHANGED default_group
                 ELSE /\ default_group' = default_group \o triangles
                      /\ UNCHANGED groups
    /\ UNCHANGED <<lines_ignored, vertices, normals, current_group, objGroup, objPc>>

\* "g": self.groups.insert(name, Group::new()); self.current_group = Some(name)
ParseG ==
    /\ \E name \in GroupNames :
          /\ ReadLine(Line("g", name, <<>>))
          /\ groups' = [n \in (DOMAIN groups) \cup {name} |->
                           IF n = name THEN <<>> ELSE groups[n]]
          /\ current_group' = <<name>>
    /\ UNCHANGED <<lines_ignored, vertices, normals, default_group, faceTotal,
                   objGroup, objPc>>

\* _ => self.lines_ignored += 1
ParseOther ==
    /\ ReadLine(Line("#", "", <<>>))
    /\ lines_ignored' = lines_ignored + 1
    /\ UNCHANGED <<vertices, normals, default_group, groups, current_group, faceTotal,
                   objGroup, objPc>>

\* The orders a HashMap of these names can be drained in
DrainOrders(names) ==
    {q \in [1..Cardinality(names) -> names] : \A n \in names : \E i \in DOMAIN q : q[i] = n}

\* into_group, at the end of the file: the default group, then the drained groups
into_group ==
    /\ objPc = "parsing"
    /\ \E q \in DrainOrders(DOMAIN groups) :
          objGroup' = <<default_group>> \o [i \in 1..Len(q) |-> groups[q[i]]]
    /\ objPc' = "returned"
    /\ UNCHANGED <<lines_ignored, vertices, normals, default_group, groups, current_group,
                   objLine, linesRead, faceTotal>>

NextObj ==
    \/ ParseV /\ UNCHANGED <<treeVars, csgVars, compsVars, childXs, shadeVars, shadowVars, hitVars, renderVars, ppmVars, graphVars, uvVars, canvasVars, repeatVars, chainVars, coneVars>>
    \/ ParseVn /\ UNCHANGED <<treeVars, csgVars, compsVars, childXs, shadeVars, shadowVars, hitVars, renderVars, ppmVars, graphVars, uvVars, canvasVars, repeatVars, chainVars, coneVars>>
    \/ ParseF /\ UNCHANGED <<treeVars, csgVars, compsVars, childXs, shadeVars, shadowVars, hitVars, renderVars, ppmVars, graphVars, uvVars, canvasVars, repeatVars, chainVars, coneVars>>
    \/ ParseG /\ UNCHANGED <<treeVars, csgVars, compsVars, childXs, shadeVars, shadowVars, hitVars, renderVars, ppmVars, graphVars, uvVars, canvasVars, repeatVars, chainVars, coneVars>>
    \/ ParseOther /\ UNCHANGED <<treeVars, csgVars, compsVars, childXs, shadeVars, shadowVars, hitVars, renderVars, ppmVars, graphVars, uvVars, canvasVars, repeatVars, chainVars, coneVars>>
    \/ into_group /\ UNCHANGED <<treeVars, csgVars, compsVars, childXs, shadeVars, shadowVars, hitVars, renderVars, ppmVars, graphVars, uvVars, canvasVars, repeatVars, chainVars, coneVars>>

InitObjSpec ==
    /\ InitObj
    /\ kind = <<>> /\ children = <<>> /\ DefaultProps(kind)
    /\ ParkCsg /\ ParkComps /\ childXs = <<>> /\ ParkShade
    /\ ParkShadow /\ ParkHit /\ ParkRender /\ ParkPpm /\ ParkGraph /\ ParkUv /\ ParkCanvas /\ ParkRepeat /\ ParkChain /\ ParkCone

SpecObj == InitObjSpec /\ [][NextObj]_vars

\* The children of the group a target names, in a state given by its fields
ChildrenOf(target, dg, gs) == IF target = <<>> THEN dg ELSE gs[target[1]]

\* The last n elements of a sequence
LastN(q, n) == SubSeq(q, Len(q) - n + 1, Len(q))

\* C22: a face line listing n >= 3 vertices v1..vn yields exactly n - 2
\* triangles, the k-th being (v1, v(k+1), v(k+2)), by the 1-based indices of
\* the file: they are the last n - 2 children of the group the line added to.
C22_FanTriangulation ==
    objPc = "parsing" /\ objLine.cmd = "f" =>
        LET f == objLine.idxs
            added == LastN(ChildrenOf(current_group, default_group, groups), Len(f) - 2)
        IN  /\ Len(ChildrenOf(current_group, default_group, groups)) >= Len(f) - 2
            /\ \A k \in 1..(Len(f) - 2) :
                  added[k] = <<PointOf(f[1]), PointOf(f[k + 1]), PointOf(f[k + 2])>>

\* A polygon of four vertices, listed backwards, was triangulated
C22_Witness ==
    /\ objPc = "parsing"
    /\ objLine = Line("f", "", <<4, 3, 2, 1>>)
    /\ default_group = << <<40, 30, 20>>, <<40, 20, 10>> >>

\* The triangles of the fan of a face line
ExpectedFan(f) ==
    [k \in 1..(Len(f) - 2) |-> <<PointOf(f[1]), PointOf(f[k + 1]), PointOf(f[k + 2])>>]

\* parse has just read a line
LineRead == linesRead' = linesRead + 1

\* C23: the triangles of a face line are added to the group named by the most
\* recent preceding g line (a g line makes its name the current one, no other
\* line changes it), or to the default group when there was none; a line with
\* an unrecognised command increments lines_ignored and changes nothing else;
\* into_group returns a Group whose children are the default group plus one
\* child per named group.
C23_GroupsAndIgnored ==
    [][/\ (LineRead /\ objLine'.cmd = "g") => current_group' = <<objLine'.name>>
       /\ (LineRead /\ objLine'.cmd # "g") => current_group' = current_group
       /\ (LineRead /\ objLine'.cmd = "f") =>
             /\ ChildrenOf(current_group, default_group', groups')
                   = ChildrenOf(current_group, default_group, groups)
                        \o ExpectedFan(objLine'.idxs)
             /\ DOMAIN groups' = DOMAIN groups
             /\ \A n \in DOMAIN groups : <<n>> # current_group => groups'[n] = groups[n]
             /\ current_group # <<>> => default_group' = default_group
       /\ (LineRead /\ objLine'.cmd = "#") =>
             /\ lines_ignored' = lines_ignored + 1
             /\ UNCHANGED <<vertices, normals, default_group, groups, current_group, objGroup>>
       /\ (LineRead /\ objLine'.cmd # "#") => lines_ignored' = lines_ignored
       /\ (objPc = "parsing" /\ objPc' = "returned") =>
             /\ Len(objGroup') = 1 + Cardinality(DOMAIN groups)
             /\ objGroup'[1] = default_group
             /\ \E q \in DrainOrders(DOMAIN groups) :
                   \A i \in 1..Len(q) : objGroup'[i + 1] = groups[q[i]]
      ]_vars

\* A file with a face before any g line, a face after g A and a line of
\* gibberish was parsed and turned into a group
C23_Witness ==
    /\ objPc = "returned"
    /\ lines_ignored = 1
    /\ Len(default_group) = 1
    /\ DOMAIN groups = {"A"}
    /\ Len(groups["A"]) = 1
    /\ Len(objGroup) = 2

RECURSIVE TotalLen(_, _)
\* The sum of the lengths of the first n sequences of a sequence
TotalLen(q, n) == IF n = 0 THEN 0 ELSE TotalLen(q, n - 1) + Len(q[n])

\* C29: every triangle produced from an f line is in the Group into_group
\* returns: the number of triangles under it is the sum over the face lines
\* of (vertex count - 2), also when a g line repeats a name declared earlier.
C29_NoTriangleLost ==
    objPc = "returned" => TotalLen(objGroup, Len(objGroup)) = faceTotal

----------------------------------------------------------------------------
(* Canvas::new, Canvas::write_pixel, Canvas::pixel_at *)

\* The colours written: black and the colours of two rays
Paints == {Black, ColorAt(0, 0, RenderDepth), ColorAt(1, 0, RenderDepth)}

\* A canvas just made by Canvas::new
InitCanvas ==
    /\ \E w \in 0..MaxCanvasW, h \in 0..MaxCanvasH : CanvasNew(w, h)
    /\ written = <<>>
    /\ hsize = 0
    /\ vsize = 0
    /\ rx = 0
    /\ ry = 0
    /\ renderPc = "idle"
    /\ lastWrite = NoWrite

\* image.write_pixel(x, y, c), with x and y inside the canvas or not
CanvasWrite ==
    /\ \E x \in 0..MaxCanvasW, y \in 0..MaxCanvasH, c \in Paints :
          /\ pixels' = write_pixel(pixels, x, y, c)
          /\ lastWrite' = [x |-> x, y |-> y, c |-> c]
    /\ UNCHANGED <<hsize, vsize, width, height, written, rx, ry, renderPc>>

NextCanvas ==
    CanvasWrite /\ UNCHANGED <<treeVars, csgVars, compsVars, childXs, shadeVars, shadowVars, hitVars, ppmVars, graphVars, uvVars, objVars, repeatVars, chainVars, coneVars>>

InitCanvasSpec ==
    /\ InitCanvas
    /\ kind = <<>> /\ children = <<>> /\ DefaultProps(kind)
    /\ ParkCsg /\ ParkComps /\ childXs = <<>> /\ ParkShade
    /\ ParkShadow /\ ParkHit /\ ParkPpm /\ ParkGraph /\ ParkUv /\ ParkObj /\ ParkRepeat /\ ParkChain /\ ParkCone

SpecCanvas == InitCanvasSpec /\ [][NextCanvas]_vars

\* The coordinates of the cells of the canvas
Cells == (0..(width - 1)) \X (0..(height - 1))

\* C28: a new Canvas is entirely black; write_pixel(x, y, c) with x < width
\* and y < height makes pixel_at(x, y) return c and changes no other pixel;
\* with x >= width or y >= height it leaves every pixel unchanged.
C28_WritePixelFrame ==
    /\ [](lastWrite = NoWrite => \A p \in Cells : pixel_at(p[1], p[2]) = Black)
    /\ [][LET w == lastWrite'
          IN  IF w.x < width /\ w.y < height
              THEN /\ pixels'[xy(w.x, w.y) + 1] = w.c
                   /\ \A p \in Cells :
                         p # <<w.x, w.y>> => pixel_at(p[1], p[2])' = pixel_at(p[1], p[2])
                   /\ Len(pixels') = Len(pixels)
              ELSE pixels' = pixels]_vars

\* A write right of the last column of a canvas with painted cells
C28_Witness ==
    /\ width = 2
    /\ height = 2
    /\ lastWrite.x = 2
    /\ lastWrite.y = 0
    /\ lastWrite.c # Black
    /\ \A p \in Cells : pixel_at(p[1], p[2]) # Black

----------------------------------------------------------------------------
(* Group::refresh_parents called again and again on one group *)

\* The group refresh_parents is called on: the first group made (0: none yet)
Receiver ==
    IF \E g \in Nodes : kind[g] = "Group"
    THEN CHOOSE g \in Nodes : kind[g] = "Group" /\ \A h \in 1..(g - 1) : kind[h] # "Group"
    ELSE 0

\* receiver.refresh_parents()
RefreshReceiver ==
    /\ calls < MaxCalls
    /\ refresh_parents
    /\ refreshed' = Receiver
    /\ calls' = calls + 1
    /\ UNCHANGED grown

\* receiver.add_child(..), or add_child on a group not yet part of its tree
AddChildBetween ==
    /\ add_child
    /\ grown' = (grown \/ calls > 0)
    /\ UNCHANGED calls

NextRepeat ==
    \/ NewPrimWith /\ UNCHANGED <<csgVars, compsVars, childXs, shadeVars, shadowVars, hitVars, renderVars, ppmVars, graphVars, uvVars, objVars, canvasVars, repeatVars, chainVars, coneVars>>
    \/ NewGroupWith /\ UNCHANGED <<csgVars, compsVars, childXs, shadeVars, shadowVars, hitVars, renderVars, ppmVars, graphVars, uvVars, objVars, canvasVars, repeatVars, chainVars, coneVars>>
    \/ NewCsg /\ UNCHANGED <<csgVars, compsVars, childXs, shadeVars, shadowVars, hitVars, renderVars, ppmVars, graphVars, uvVars, objVars, canvasVars, repeatVars, chainVars, coneVars>>
    \/ AddChildBetween /\ UNCHANGED <<csgVars, compsVars, childXs, shadeVars, shadowVars, hitVars, renderVars, ppmVars, graphVars, uvVars, objVars, canvasVars, chainVars, coneVars>>
    \/ RefreshReceiver /\ UNCHANGED <<csgVars, compsVars, childXs, shadeVars, shadowVars, hitVars, renderVars, ppmVars, graphVars, uvVars, objVars, canvasVars, chainVars, coneVars>>

InitRepeatSpec ==
    /\ InitTree
    /\ ParkCsg /\ ParkComps /\ childXs = <<>> /\ ParkShade
    /\ ParkShadow /\ ParkHit /\ ParkRender /\ ParkPpm /\ ParkGraph /\ ParkUv /\ ParkObj
    /\ ParkCanvas /\ ParkRepeat /\ ParkChain /\ ParkCone

SpecRepeat == InitRepeatSpec /\ [][NextRepeat]_vars

\* The materials and lists of the nodes as their constructors and builders
\* left them, before any refresh_parents
Fresh ==
    [mat |-> [n \in Nodes |-> IF authored[n].set THEN authored[n].m ELSE DefaultMaterial],
     pt |-> [n \in Nodes |-> <<>>],
     pi |-> [n \in Nodes |-> <<>>]]

\* C27: refresh_parents is idempotent and does not accumulate: after any
\* number of calls on a group, in a row or with children added in between,
\* every descendant has the ancestor-transform list, the ancestor-inverse list
\* and the material a single call on the final tree gives; a call changes no
\* node's own transform and no child order.
C27_RefreshIdempotent ==
    /\ [](refreshed # 0 =>
            \A d \in Descendants(refreshed) :
                /\ parentTransforms[d] = RefreshFrom(refreshed, Fresh).pt[d]
                /\ parentInverses[d] = RefreshFrom(refreshed, Fresh).pi[d]
                /\ material[d] = RefreshFrom(refreshed, Fresh).mat[d])
    /\ [][calls' # calls => transform' = transform /\ children' = children]_vars

\* The second call, after a child was added to a tree two levels deep with a
\* transform and a material to inherit
C27_Witness ==
    /\ calls = 2
    /\ grown
    /\ refreshed # 0
    /\ \E d \in Descendants(refreshed) :
          /\ Len(parentTransforms[d]) = 2
          /\ parentTransforms[d][1] # Identity
          /\ ~authored[d].set
          /\ material[d] # DefaultMaterial

\* ---------------------------------------------------------------------------
\* Matrix4x4: the builder methods rotate_x, rotate_y, rotate_z, scale and
\* translate, called one after another on Matrix4x4::identity().
\* A matrix is four rows of four entries.  Angles are counted in quarter
\* turns, whose sines and cosines are integers; every other entry is an
\* integer too, so the products are computed exactly.
\* ---------------------------------------------------------------------------

\* The longest chain of builder calls
MaxChain == 3

\* The angles a rotation is called with, in quarter turns
Quarters == {1, 3}

\* The arguments scale is called with
ScaleArgs == {<<5, 5, 5>>, <<2, 3, 1>>}

\* The arguments translate is called with
TranslateArgs == {<<10, 5, 7>>}

\* f64::cos of q quarter turns
cos(q) == <<1, 0, -1, 0>>[(q % 4) + 1]

\* f64::sin of q quarter turns
sin(q) == <<0, 1, 0, -1>>[(q % 4) + 1]

\* Matrix4x4::identity()
identity ==
    << <<1, 0, 0, 0>>,
       <<0, 1, 0, 0>>,
       <<0, 0, 1, 0>>,
       <<0, 0, 0, 1>> >>

\* m with m[r][c] = v, rows and columns counted from 0 as the code does
SetEntry(m, r, c, v) == [m EXCEPT ![r + 1][c + 1] = v]

\* Matrix4x4::translation(x, y, z)
translation(x, y, z) ==
    SetEntry(SetEntry(SetEntry(identity, 0, 3, x), 1, 3, y), 2, 3, z)

\* Matrix4x4::scaling(x, y, z)
scaling(x, y, z) ==
    SetEntry(SetEntry(SetEntry(identity, 0, 0, x), 1, 1, y), 2, 2, z)

\* Matrix4x4::rotation_x(radians)
rotation_x(q) ==
    SetEntry(SetEntry(SetEntry(SetEntry(identity, 1, 1, cos(q)), 1, 2, -sin(q)),
                      2, 1, sin(q)), 2, 2, cos(q))

\* Matrix4x4::rotation_y(radians)
rotation_y(q) ==
    SetEntry(SetEntry(SetEntry(SetEntry(identity, 0, 0, cos(q)), 0, 2, sin(q)),
                      2, 0, -sin(q)), 2, 2, cos(q))

\* Matrix4x4::rotation_z(radians)
rotation_z(q) ==
    SetEntry(SetEntry(SetEntry(SetEntry(identity, 0, 0, cos(q)), 0, 1, -sin(q)),
                      1, 0, sin(q)), 1, 1, cos(q))

\* impl Mul for Matrix4x4: the dot product of every row of a with every
\* column of b
Mul(a, b) ==
    [r \in 1..4 |->
        [c \in 1..4 |->
            a[r][1] * b[1][c] + a[r][2] * b[2][c] + a[r][3] * b[3][c]
                + a[r][4] * b[4][c]]]

\* impl Mul<Tuple> for Matrix4x4
MulTuple(a, b) ==
    [r \in 1..4 |-> a[r][1] * b[1] + a[r][2] * b[2] + a[r][3] * b[3] + a[r][4] * b[4]]

\* Matrix4x4::rotate_x(self, radians)
rotate_x(m, q) == Mul(rotation_x(q), m)

\* Matrix4x4::rotate_y(self, radians)
rotate_y(m, q) == Mul(rotation_y(q), m)

\* Matrix4x4::rotate_z(self, radians)
rotate_z(m, q) == Mul(rotation_z(q), m)

\* Matrix4x4::scale(self, x, y, z)
scale(m, x, y, z) == Mul(scaling(x, y, z), m)

\* A translate that multiplies on the other side
translate_OnTheRight(m, x, y, z) == Mul(m, translation(x, y, z))

\* Matrix4x4::translate(self, x, y, z)
translate(m, x, y, z) == Mul(translation(x, y, z), m)

\* The record of one builder call
Call(name, args) == [name |-> name, args |-> args]

\* The chain starts at Matrix4x4::identity()
InitChain == chainM = identity /\ chainOps = <<>>

\* .rotate_x(radians)
RotateX ==
    /\ Len(chainOps) < MaxChain
    /\ \E q \in Quarters :
        /\ chainM' = rotate_x(chainM, q)
        /\ chainOps' = Append(chainOps, Call("rotate_x", <<q>>))

\* .rotate_y(radians)
RotateY ==
    /\ Len(chainOps) < MaxChain
    /\ \E q \in Quarters :
        /\ chainM' = rotate_y(chainM, q)
        /\ chainOps' = Append(chainOps, Call("rotate_y", <<q>>))

\* .rotate_z(radians)
RotateZ ==
    /\ Len(chainOps) < MaxChain
    /\ \E q \in Quarters :
        /\ chainM' = rotate_z(chainM, q)
        /\ chainOps' = Append(chainOps, Call("rotate_z", <<q>>))

\* .scale(x, y, z)
Scale ==
    /\ Len(chainOps) < MaxChain
    /\ \E a \in ScaleArgs :
        /\ chainM' = scale(chainM, a[1], a[2], a[3])
        /\ chainOps' = Append(chainOps, Call("scale", a))

\* .translate(x, y, z)
Translate ==
    /\ Len(chainOps) < MaxChain
    /\ \E a \in TranslateArgs :
        /\ chainM' = translate(chainM, a[1], a[2], a[3])
        /\ chainOps' = Append(chainOps, Call("translate", a))

NextChain ==
    \/ RotateX /\ UNCHANGED <<treeVars, csgVars, compsVars, childXs, shadeVars, shadowVars, hitVars, renderVars, ppmVars, graphVars, uvVars, objVars, canvasVars, repeatVars, coneVars>>
    \/ RotateY /\ UNCHANGED <<treeVars, csgVars, compsVars, childXs, shadeVars, shadowVars, hitVars, renderVars, ppmVars, graphVars, uvVars, objVars, canvasVars, repeatVars, coneVars>>
    \/ RotateZ /\ UNCHANGED <<treeVars, csgVars, compsVars, childXs, shadeVars, shadowVars, hitVars, renderVars, ppmVars, graphVars, uvVars, objVars, canvasVars, repeatVars, coneVars>>
    \/ Scale /\ UNCHANGED <<treeVars, csgVars, compsVars, childXs, shadeVars, shadowVars, hitVars, renderVars, ppmVars, graphVars, uvVars, objVars, canvasVars, repeatVars, coneVars>>
    \/ Translate /\ UNCHANGED <<treeVars, csgVars, compsVars, childXs, shadeVars, shadowVars, hitVars, renderVars, ppmVars, graphVars, uvVars, objVars, canvasVars, repeatVars, coneVars>>

InitChainSpec ==
    /\ InitChain
    /\ kind = <<>> /\ children = <<>> /\ DefaultProps(kind)
    /\ ParkCsg /\ ParkComps /\ childXs = <<>> /\ ParkShade
    /\ ParkShadow /\ ParkHit /\ ParkRender /\ ParkPpm /\ ParkGraph /\ ParkUv /\ ParkObj
    /\ ParkCanvas /\ ParkRepeat /\ ParkCone

SpecChain == InitChainSpec /\ [][NextChain]_vars

\* The matrix the chain's k-th call stands for: the constructor of the same
\* name with the same arguments
MatrixOf(o) ==
    CASE o.name = "rotate_x" -> rotation_x(o.args[1])
      [] o.name = "rotate_y" -> rotation_y(o.args[1])
      [] o.name = "rotate_z" -> rotation_z(o.args[1])
      [] o.name = "scale" -> scaling(o.args[1], o.args[2], o.args[3])
      [] o.name = "translate" -> translation(o.args[1], o.args[2], o.args[3])

\* OpN * ... * Opk, the rightmost factor multiplied in last
RECURSIVE ProductFrom(_)
ProductFrom(k) ==
    IF k > Len(chainOps) THEN identity
    ELSE Mul(ProductFrom(k + 1), MatrixOf(chainOps[k]))

\* The point p after calls 1..k acted on it one at a time, call 1 first
RECURSIVE ActedOn(_, _)
ActedOn(p, k) ==
    IF k = 0 THEN p ELSE MulTuple(MatrixOf(chainOps[k]), ActedOn(p, k - 1))

\* The points the built matrix is applied to
SamplePoints == {<<1, 0, 1, 1>>, <<0, 1, 0, 1>>, <<1, 2, 3, 1>>, <<1, 0, 0, 0>>}

\* C21: identity().op1()...opN() is the product OpN * ... * Op1, so that
\* applied to a point the first call of the chain acts first.
C21_ChainRightToLeft ==
    /\ chainM = ProductFrom(1)
    /\ \A p \in SamplePoints : MulTuple(chainM, p) = ActedOn(p, Len(chainOps))

\* The chain of the test matrix_transformation_chaining has been built; its
\* calls do not commute, and it sends (1, 0, 1) to (15, 0, 7)
C21_Witness ==
    /\ chainOps = <<Call("rotate_x", <<1>>), Call("scale", <<5, 5, 5>>),
                    Call("translate", <<10, 5, 7>>)>>
    /\ MulTuple(chainM, <<1, 0, 1, 1>>) = <<15, 0, 7, 1>>
    /\ Mul(MatrixOf(chainOps[2]), MatrixOf(chainOps[3]))
         # Mul(MatrixOf(chainOps[3]), MatrixOf(chainOps[2]))


\* ---------------------------------------------------------------------------
\* Cone::local_intersect.  The ray's coordinates are integers, and a t is the
\* exact fraction num / den with den > 0.  The rays drawn are those whose
\* discriminant is negative or a perfect square, so that its square root is
\* an integer.  An intersection carries, besides its t, the part of the cone
\* that pushed it: "side" for the lateral surface, "cap" for an end cap; the
\* code keeps no such field.
\* ---------------------------------------------------------------------------

\* The ray's coordinates lie in -MaxCoord..MaxCoord
MaxCoord == 1

Coords == (0 - MaxCoord)..MaxCoord

\* An f64 that is finite
Finite(n) == [inf |-> 0, v |-> n]

\* std::f64::NEG_INFINITY
NEG_INFINITY == [inf |-> 0 - 1, v |-> 0]

\* std::f64::INFINITY
INFINITY == [inf |-> 1, v |-> 0]

\* The fraction n / d, d # 0, with a positive denominator
Rat(n, d) == IF d < 0 THEN [num |-> 0 - n, den |-> 0 - d] ELSE [num |-> n, den |-> d]

\* p < q for fractions
RatLess(p, q) == p.num * q.den < q.num * p.den

\* bound < o + t * d, for a bound that may be infinite
BelowY(bound, o, d, t) ==
    \/ bound.inf < 0
    \/ bound.inf = 0 /\ bound.v * t.den < o * t.den + t.num * d

\* o + t * d < bound, for a bound that may be infinite
AboveY(o, d, t, bound) ==
    \/ bound.inf > 0
    \/ bound.inf = 0 /\ o * t.den + t.num * d < bound.v * t.den

\* f64::sqrt of a perfect square
Sqrt(n) == CHOOSE r \in 0..n : r * r <= n /\ (r + 1) * (r + 1) > n

IsSquare(n) == n >= 0 /\ Sqrt(n) * Sqrt(n) = n

\* The coefficients local_intersect computes from the ray
CoefA(r) ==
    r.direction[1] * r.direction[1] - r.direction[2] * r.direction[2]
        + r.direction[3] * r.direction[3]

CoefB(r) ==
    2 * r.origin[1] * r.direction[1] - 2 * r.origin[2] * r.direction[2]
        + 2 * r.origin[3] * r.direction[3]

CoefC(r) ==
    r.origin[1] * r.origin[1] - r.origin[2] * r.origin[2]
        + r.origin[3] * r.origin[3]

Disc(r) == CoefB(r) * CoefB(r) - 4 * CoefA(r) * CoefC(r)

\* Ray::new(origin, direction)
Rays ==
    {r \in [origin : Coords \X Coords \X Coords, direction : Coords \X Coords \X Coords] :
        CoefA(r) = 0 \/ Disc(r) < 0 \/ IsSquare(Disc(r))}

\* Cone::default(), Cone::new(-1, 1, false) and Cone::new(-1, 1, true)
Cones ==
    {[min |-> NEG_INFINITY, max |-> INFINITY, closed |-> FALSE],
     [min |-> Finite(0 - 1), max |-> Finite(1), closed |-> FALSE],
     [min |-> Finite(0 - 1), max |-> Finite(1), closed |-> TRUE]}

\* Intersection::new(t, cone), pushed by the given part of the cone
ConeHit(t, part) == [t |-> t, part |-> part]

\* check_cap(ray, t, y)
check_cap(r, t, y) ==
    LET x == r.origin[1] * t.den + t.num * r.direction[1]
        z == r.origin[3] * t.den + t.num * r.direction[3]
    IN  x * x + z * z <= y * y * t.den * t.den

\* intersect_caps(cone, ray, xs): what it pushes on xs
intersect_caps(co, r) ==
    IF ~co.closed \/ r.direction[2] = 0 THEN <<>>
    ELSE LET tmin == Rat(co.min.v - r.origin[2], r.direction[2])
             tmax == Rat(co.max.v - r.origin[2], r.direction[2])
         IN  (IF check_cap(r, tmin, co.min.v) THEN <<ConeHit(tmin, "cap")>> ELSE <<>>)
             \o (IF check_cap(r, tmax, co.max.v) THEN <<ConeHit(tmax, "cap")>> ELSE <<>>)

\* A linear solve that divides by b
LinearT_DivideByB(b, c) == Rat(0 - c, b)

\* The t of the branch a = 0, b # 0
LinearT(b, c) == Rat(0 - c, 2 * b)

\* Cone::local_intersect(ray)
local_intersect(co, r) ==
    LET a == CoefA(r)
        b == CoefB(r)
        c == CoefC(r)
        disc == Disc(r)
    IN  IF a = 0
        THEN IF b = 0 THEN <<>>
             ELSE <<ConeHit(LinearT(b, c), "side")>> \o intersect_caps(co, r)
        ELSE IF disc < 0 THEN <<>>
        ELSE LET m0 == Rat(0 - b - Sqrt(disc), 2 * a)
                 m1 == Rat(0 - b + Sqrt(disc), 2 * a)
                 t0 == IF RatLess(m1, m0) THEN m1 ELSE m0
                 t1 == IF RatLess(m1, m0) THEN m0 ELSE m1
                 in0 == BelowY(co.min, r.origin[2], r.direction[2], t0)
                          /\ AboveY(r.origin[2], r.direction[2], t0, co.max)
                 in1 == BelowY(co.min, r.origin[2], r.direction[2], t1)
                          /\ AboveY(r.origin[2], r.direction[2], t1, co.max)
             IN  (IF in0 THEN <<ConeHit(t0, "side")>> ELSE <<>>)
                 \o (IF in1 THEN <<ConeHit(t1, "side")>> ELSE <<>>)
                 \o intersect_caps(co, r)

\* A cone and a ray
InitCone ==
    /\ coneRay \in Rays
    /\ cone \in Cones
    /\ coneXs = <<>>
    /\ conePc = "call"

\* cone.local_intersect(&ray)
ConeIntersect ==
    /\ conePc = "call"
    /\ coneXs' = local_intersect(cone, coneRay)
    /\ conePc' = "returned"
    /\ UNCHANGED <<coneRay, cone>>

NextCone ==
    ConeIntersect /\ UNCHANGED <<treeVars, csgVars, compsVars, childXs, shadeVars, shadowVars, hitVars, renderVars, ppmVars, graphVars, uvVars, objVars, canvasVars, repeatVars, chainVars>>

InitConeSpec ==
    /\ InitCone
    /\ kind = <<>> /\ children = <<>> /\ DefaultProps(kind)
    /\ ParkCsg /\ ParkComps /\ childXs = <<>> /\ ParkShade
    /\ ParkShadow /\ ParkHit /\ ParkRender /\ ParkPpm /\ ParkGraph /\ ParkUv /\ ParkObj
    /\ ParkCanvas /\ ParkRepeat /\ ParkChain

SpecCone == InitConeSpec /\ [][NextCone]_vars

\* The point origin + t * direction lies on the cone x^2 + z^2 = y^2
OnCone(r, t) ==
    LET x == r.origin[1] * t.den + t.num * r.direction[1]
        y == r.origin[2] * t.den + t.num * r.direction[2]
        z == r.origin[3] * t.den + t.num * r.direction[3]
    IN  x * x + z * z = y * y

\* C30: every lateral t that Cone::local_intersect returns gives a point of
\* the ray with x^2 + z^2 = y^2, the t of the branch a = 0, b # 0 included.
C30_LateralOnCone ==
    \A i \in 1..Len(coneXs) :
        coneXs[i].part = "side" => OnCone(coneRay, coneXs[i].t)

\* The lateral t's of the quadratic branch lie on the cone
C30_QuadraticOnCone ==
    CoefA(coneRay) # 0 =>
        \A i \in 1..Len(coneXs) :
            coneXs[i].part = "side" => OnCone(coneRay, coneXs[i].t)

\* The quadratic branch returned two different lateral t's
C30_QuadraticWitness ==
    /\ conePc = "returned"
    /\ CoefA(coneRay) # 0
    /\ Len(coneXs) >= 2
    /\ coneXs[1].part = "side" /\ coneXs[2].part = "side"
    /\ RatLess(coneXs[1].t, coneXs[2].t)

\* The ray of the test ray_intersection_with_cone_one_half, not normalised,
\* got the lateral t = 1 / 4, where x^2 + z^2 = 9 / 16 and y^2 = 1 / 16
C30_LinearOffCone ==
    /\ conePc = "returned"
    /\ coneRay = [origin |-> <<0, 0, 0 - 1>>, direction |-> <<0, 1, 1>>]
    /\ coneXs[1] = ConeHit(Rat(1, 4), "side")
    /\ ~OnCone(coneRay, coneXs[1].t)


====
